---- MODULE Spec2Model ----
(***************************************************************************)
(* A model of the esp32-keymaster duplex bridge:                           *)
(*   - the device-side connection supervisor (src/ble_server.py),          *)
(*   - the device-side serial <-> BLE bridge with its CHUNK:n/N: framing   *)
(*     and reassembly (src/serial_bridge.py).                              *)
(*   - the host transport with its reader thread and its reconnects        *)
(*     (src/mcp_server/server.py, _SerialBridge).                          *)
(* Bytes are numbers 0..255, a str is a sequence of code points, so that   *)
(* encoding, decoding, formatting and parsing are computed, not assumed.   *)
(***************************************************************************)
EXTENDS Integers, Sequences, FiniteSets, TLC

VARIABLES
    \* ---- BLEServer (src/ble_server.py)
    adv_pc,         \* position of _advertise_task
    rx_pc,          \* position of _rx_task
    _connection,    \* BLEServer._connection: None or the connection object
    link_up,        \* what connection.is_connected() returns (radio state)
    status,         \* the last status events passed to _notify_status
    halted,         \* asyncio.run(main()) has ended: no task runs any more
    tx,             \* payloads written to the TX characteristic, in order
    nrx,            \* number of inbound writes handled by _rx_task
    cb_failed,      \* history: a consumer callback (on_status, on_activity)
                    \* has raised
    \* ---- SerialBridge (src/serial_bridge.py)
    stdin,          \* bytes the host has written and the bridge has not read
    _buf,           \* SerialBridge._buf, the host line buffer
    _chunk_buf,     \* SerialBridge._chunk_buf: index -> payload
    _chunk_total,   \* SerialBridge._chunk_total
    _chunk_ts,      \* SerialBridge._chunk_ts
    now,            \* time.ticks_ms()
    stdout,         \* lines written to the host link (sys.stdout), in order
    activity,       \* number of on_activity events reported
    \* ---- history (not program state)
    sent,           \* payloads handed to _send_ble that went out, in order
    extracted,      \* <<line, connected>> for every line taken from _buf
    hostlines,      \* the lines the host has written so far
    age,            \* real time since the reassembly buffer became non-empty
    ticks,          \* number of clock steps taken
    nin,            \* number of inbound messages handled by the bridge
    checked,        \* the bridge loop has run since the clock last advanced
    \* ---- _SerialBridge, the host transport (src/mcp_server/server.py)
    _ser,           \* _SerialBridge._ser: NoHandle or the index of a handle
    handles,        \* the serial.Serial objects made so far, in order
    _lock,          \* _SerialBridge._lock: None or the thread holding it
    at,             \* position of each host thread
    port,           \* per thread: the port argument of connect()
    via,            \* per thread: the caller of connect()
    raised,         \* per thread: the exception last raised in it
    snd,            \* the send() call in progress: message and history
    wire,           \* payloads the device got from the host, in order
    port_ok,        \* the device's port can be opened
    faults,         \* number of link faults so far
    nsend,          \* number of send() calls so far
    rd_erred,       \* history: the reader has met an I/O error
    _rx_queue,      \* _SerialBridge._rx_queue: entries (ts, text), oldest first
    rx_pipe,        \* bytes the device has sent and the host has not read
    rd_buf,         \* the local `buf` of _reader_loop
    clock,          \* time.time() of the host
    saw,            \* per thread: its send_and_wait() call
    answered,       \* number of requests the device has replied to (history)
    said,           \* number of unsolicited lines of the device (history)
    arrivals        \* every entry ever put into _rx_queue (history)

bleVars    == <<adv_pc, rx_pc, _connection, link_up, status, halted, nrx>>
outVars    == <<stdin, _buf, sent, extracted, hostlines>>
inVars     == <<_chunk_buf, _chunk_total, _chunk_ts, now, stdout, age, ticks,
                nin, checked>>
waitVars   == <<_rx_queue, rx_pipe, rd_buf, clock, saw, answered, said,
                arrivals>>
hostVars   == <<_ser, handles, _lock, at, port, via, raised, snd, wire, port_ok,
                faults, nsend, rd_erred, waitVars>>
vars       == <<bleVars, cb_failed, tx, outVars, inVars, activity, hostVars>>

None == "None"

-----------------------------------------------------------------------------
(* Bounds of the model.                                                    *)

MaxStatus == 4      \* status events remembered
MaxRx     == 2      \* inbound writes handled by _rx_task
MaxTicks  == 4      \* clock steps
MaxIn     == 3      \* inbound messages given to the bridge
MaxLines  == 2      \* lines the host writes
MaxHandles == 3     \* serial.Serial objects the host transport makes
MaxFaults == 2      \* faults of the host link
MaxSends  == 1      \* send() or send_and_wait() calls of one thread
MaxFlood  == 501    \* lines of a device that keeps talking
MaxSaid   == 1      \* unsolicited lines of the device during a call
MaxClock  == 6      \* the host clock stops here
MaxPieces == 4      \* pieces of lines the device sends to the host

-----------------------------------------------------------------------------
(* Program constants.                                                      *)

_CHUNK_PAYLOAD    == 480
_CHUNK_SIZE       == 200
_POLL_TIMEOUT_MS  == 100
_BUF_OVERFLOW     == 4096
_CHUNK_TIMEOUT_MS == 5000
HeaderReserve     == 20
\* time.ticks_ms() counts modulo this period (MicroPython: 2^30)
TICKS_PERIOD      == 2^30


-----------------------------------------------------------------------------
(* Text: str values are sequences of code points, bytes values sequences   *)
(* of numbers 0..255.                                                      *)

NL    == 10
COLON == 58
SLASH == 47
MINUS == 45
PLUS  == 43
REPLACEMENT == 65533                      \* U+FFFD
CHUNK_PREFIX == <<67, 72, 85, 78, 75, 58>>            \* "CHUNK:"
RAW_PREFIX   == <<82, 65, 87, 58>>                    \* "RAW:"
ERR_PREFIX   == <<69, 82, 82, 58, 67, 72, 85, 78, 75, 95, 84, 73, 77, 69,
                  79, 85, 84, 58, 114, 101, 99, 101, 105, 118, 101, 100,
                  32>>                    \* "ERR:CHUNK_TIMEOUT:received "
ERR_SUFFIX   == <<32, 99, 104, 117, 110, 107, 115, 10>>   \* " chunks\n"

Min(a, b) == IF a < b THEN a ELSE b

StartsWith(s, p) == Len(s) >= Len(p) /\ SubSeq(s, 1, Len(p)) = p
EndsWith(s, c)   == Len(s) > 0 /\ s[Len(s)] = c

\* s[k:] of Python, k counted from 0
From(s, k) == SubSeq(s, k + 1, Len(s))

\* "{}".format(n) for an int n
RECURSIVE DigitsOf(_)
DigitsOf(n) == IF n < 10 THEN <<48 + n>>
               ELSE Append(DigitsOf(n \div 10), 48 + (n % 10))
FormatInt(n) == IF n < 0 THEN <<MINUS>> \o DigitsOf(0 - n) ELSE DigitsOf(n)

\* int(s): optional surrounding whitespace, optional sign, one or more digits
IsSpace(c) == c \in {32, 9, 10, 11, 12, 13}
IsDigit(c) == c \in 48..57
RECURSIVE DigitsValue(_)
DigitsValue(s) == IF s = <<>> THEN 0
                  ELSE 10 * DigitsValue(SubSeq(s, 1, Len(s) - 1))
                       + (s[Len(s)] - 48)
Strip(s) ==
    LET Kept(keep) ==
            IF keep = {} THEN <<>>
            ELSE SubSeq(s, CHOOSE i \in keep : \A j \in keep : i <= j,
                           CHOOSE i \in keep : \A j \in keep : i >= j)
    IN  Kept({i \in 1..Len(s) : ~IsSpace(s[i])})
ParseIntMutant(str) ==
    LET Lenient(s) ==
            IF s # <<>> /\ \A i \in 1..Len(s) : IsDigit(s[i])
            THEN [ok |-> TRUE, val |-> DigitsValue(s)]
            ELSE [ok |-> TRUE, val |-> 0]
    IN  Lenient(Strip(str))
ParseInt(str) ==
    LET Signed(s, d) ==
            IF d # <<>> /\ \A i \in 1..Len(d) : IsDigit(d[i])
            THEN [ok  |-> TRUE,
                  val |-> IF s[1] = MINUS THEN 0 - DigitsValue(d)
                          ELSE DigitsValue(d)]
            ELSE [ok |-> FALSE, val |-> 0]
        Stripped(s) ==
            Signed(s, IF s # <<>> /\ s[1] \in {MINUS, PLUS}
                      THEN From(s, 1) ELSE s)
    IN  Stripped(Strip(str))

\* positions of c in s
Positions(s, c) == {i \in 1..Len(s) : s[i] = c}
First(S) == CHOOSE i \in S : \A j \in S : i <= j

\* "CHUNK:{}/{}:{}".format(n, total, payload)
ChunkMsg(n, total, payload) ==
    CHUNK_PREFIX \o FormatInt(n) \o <<SLASH>> \o FormatInt(total)
                 \o <<COLON>> \o payload

\* the try block of _handle_inbound_chunk: rest.split(":", 1), then
\* header.split("/") unpacked into two names, then int() of each
ParseChunk(message) ==
    LET Failed == [ok |-> FALSE, n |-> 0, total |-> 0, data |-> <<>>]
        Ints(n, total, data) ==
            IF n.ok /\ total.ok
            THEN [ok |-> TRUE, n |-> n.val, total |-> total.val,
                  data |-> data]
            ELSE Failed
        Parts(header, sl, data) ==
            IF Cardinality(sl) # 1 THEN Failed
            ELSE Ints(ParseInt(SubSeq(header, 1, First(sl) - 1)),
                      ParseInt(From(header, First(sl))), data)
        Header(header, data) == Parts(header, Positions(header, SLASH), data)
        Split(rest, colons) ==
            IF colons = {} THEN Failed
            ELSE Header(SubSeq(rest, 1, First(colons) - 1),
                        From(rest, First(colons)))
        Rest(rest) == Split(rest, Positions(rest, COLON))
    IN  Rest(From(message, 6))

-----------------------------------------------------------------------------
(* UTF-8.  The sequences of one, two and three bytes are decoded; any      *)
(* other byte is undecodable (the host lines of the model hold no          *)
(* four-byte sequence).                                                    *)

IsCont(b)  == b \in 128..191
Lead2(b, i) == b[i] \in 194..223 /\ i + 1 <= Len(b) /\ IsCont(b[i + 1])
Lead3(b, i) == b[i] \in 224..239 /\ i + 2 <= Len(b) /\ IsCont(b[i + 1])
                  /\ IsCont(b[i + 2])
Consumed(b, i) == \/ i > 1 /\ (Lead2(b, i - 1) \/ Lead3(b, i - 1))
                  \/ i > 2 /\ Lead3(b, i - 2)
Undecodable(b, i) ==
    ~(b[i] < 128 \/ Lead2(b, i) \/ Lead3(b, i) \/ Consumed(b, i))

\* the bytes are well-formed UTF-8
ValidUtf8(b) == \A i \in 1..Len(b) : ~Undecodable(b, i)

NotSkipped(c) == c # -1

\* bytes.decode("utf-8", "replace"): an undecodable byte becomes U+FFFD
DecodeReplace(b) ==
    SelectSeq([i \in 1..Len(b) |->
                 IF Consumed(b, i) THEN -1
                 ELSE IF b[i] < 128 THEN b[i]
                 ELSE IF Lead2(b, i)
                      THEN (b[i] - 192) * 64 + (b[i + 1] - 128)
                 ELSE IF Lead3(b, i)
                      THEN (b[i] - 224) * 4096 + (b[i + 1] - 128) * 64
                           + (b[i + 2] - 128)
                 ELSE REPLACEMENT],
              NotSkipped)

\* the UTF-8 bytes of one code point (below U+10000)
EncodeChar(c) ==
    IF c < 128 THEN <<c>>
    ELSE IF c < 2048 THEN <<192 + (c \div 64), 128 + (c % 64)>>
    ELSE <<224 + (c \div 4096), 128 + ((c \div 64) % 64), 128 + (c % 64)>>

\* str.encode("utf-8")
RECURSIVE EncodeRange(_, _, _)
EncodeRange(s, lo, hi) ==
    IF lo > hi THEN <<>>
    ELSE IF lo = hi THEN EncodeChar(s[lo])
    ELSE LET mid == (lo + hi) \div 2
         IN  EncodeRange(s, lo, mid) \o EncodeRange(s, mid + 1, hi)
Encode(s) == EncodeRange(s, 1, Len(s))

-----------------------------------------------------------------------------
(* Time: time.ticks_ms() and time.ticks_diff().                            *)

ticks_add(t, d)  == (t + d) % TICKS_PERIOD
ticks_diff(a, b) ==
    ((a - b + (TICKS_PERIOD \div 2)) % TICKS_PERIOD) - (TICKS_PERIOD \div 2)


-----------------------------------------------------------------------------
(* SerialBridge, inbound direction: on_ble_receive, _handle_inbound_chunk  *)
(* and _check_chunk_timeout.  Each operator takes the reassembly state     *)
(* (buf, total, ts) and the clock and returns the new state with the lines *)
(* written to sys.stdout (out) and the number of activity events (act).    *)

EmptyBuf == <<>>

\* self._chunk_buf[n] = data
Put(buf, n, data) ==
    [i \in (DOMAIN buf) \cup {n} |-> IF i = n THEN data ELSE buf[i]]

\* line = s if s.endswith("\n") else s + "\n"
TerminatedMutant(s) == Append(s, NL)
Terminated(s) == IF EndsWith(s, NL) THEN s ELSE Append(s, NL)

\* the test of line 80: a new total, or a buffer older than the timeout
ExpiredMutant(ts, t) == ts # 0 /\ ticks_diff(t, ts) >= _CHUNK_TIMEOUT_MS
Expired(ts, t) == ts # 0 /\ ticks_diff(t, ts) > _CHUNK_TIMEOUT_MS

NeedsResetMutant(total, ctotal, ts, t) == Expired(ts, t)
NeedsReset(total, ctotal, ts, t) == total # ctotal \/ Expired(ts, t)

\* for i in range(1, total + 1): full_msg += self._chunk_buf.get(i, "")
RECURSIVE JoinUpTo(_, _)
JoinUpTo(buf, k) ==
    IF k < 1 THEN <<>>
    ELSE JoinUpTo(buf, k - 1) \o (IF k \in DOMAIN buf THEN buf[k] ELSE <<>>)
ReassembleMutant(buf, total) ==
    IF 1 \in DOMAIN buf THEN buf[1] ELSE <<>>
Reassemble(buf, total) == JoinUpTo(buf, total)

_handle_inbound_chunk(message, buf, total, ts, t) ==
    LET \* lines 89-107
        Stored(p, buf2, tot1, ts1) ==
            IF Cardinality(DOMAIN buf2) = p.total
            THEN [buf |-> EmptyBuf, total |-> 0, ts |-> 0,
                  out |-> <<Terminated(Reassemble(buf2, p.total))>>,
                  act |-> 1]
            ELSE [buf |-> buf2, total |-> tot1,
                  ts |-> IF ts1 = 0 THEN t ELSE ts1,
                  out |-> <<>>, act |-> 0]
        \* lines 80-87
        Checked(p, reset) ==
            Stored(p, Put(IF reset THEN EmptyBuf ELSE buf, p.n, p.data),
                   IF reset THEN p.total ELSE total,
                   IF reset THEN t ELSE ts)
        \* lines 64-75
        Parsed(p) ==
            IF ~p.ok
            THEN [buf |-> buf, total |-> total, ts |-> ts,
                  out |-> <<RAW_PREFIX \o message \o <<NL>>>>, act |-> 0]
            ELSE Checked(p, NeedsReset(p.total, total, ts, t))
    IN  Parsed(ParseChunk(message))

on_ble_receive(message, buf, total, ts, t) ==
    IF StartsWith(message, CHUNK_PREFIX)
    THEN _handle_inbound_chunk(message, buf, total, ts, t)
    ELSE [buf |-> buf, total |-> total, ts |-> ts,
          out |-> <<Terminated(message)>>, act |-> 1]

\* "ERR:CHUNK_TIMEOUT:received {}/{} chunks\n".format(len(buf), total)
ErrLine(k, total) ==
    ERR_PREFIX \o FormatInt(k) \o <<SLASH>> \o FormatInt(total) \o ERR_SUFFIX

_check_chunk_timeout(buf, total, ts, t) ==
    IF ts # 0 /\ buf # EmptyBuf /\ Expired(ts, t)
    THEN [buf |-> EmptyBuf, total |-> 0, ts |-> 0,
          out |-> <<ErrLine(Cardinality(DOMAIN buf), total)>>, act |-> 0]
    ELSE [buf |-> buf, total |-> total, ts |-> ts, out |-> <<>>, act |-> 0]


-----------------------------------------------------------------------------
(* SerialBridge, outbound direction: _process_buffer, _send_chunked and    *)
(* _send_ble.  `conn` is what self._ble.connected returns; no task runs    *)
(* between the calls of one pass, so it is read once per pass.             *)

\* the loop of lines 210-214: pieces of at most _CHUNK_SIZE bytes
FragmentsMutant(data) ==
    [k \in 1..((Len(data) + _CHUNK_SIZE - 1) \div _CHUNK_SIZE) |->
        SubSeq(data, (k - 1) * _CHUNK_SIZE + 1,
               Min(k * _CHUNK_SIZE, Len(data)))]
    \o <<SubSeq(data, 1, Min(_CHUNK_SIZE, Len(data)))>>
\* end = min(offset + _CHUNK_SIZE, len(data_bytes)) (line 211)
FragmentEndMutant(offset, n) == Min(offset + _CHUNK_SIZE - 1, n)
FragmentEnd(offset, n) == Min(offset + _CHUNK_SIZE, n)

Fragments(data) ==
    [k \in 1..((Len(data) + _CHUNK_SIZE - 1) \div _CHUNK_SIZE) |->
        SubSeq(data, (k - 1) * _CHUNK_SIZE + 1,
               FragmentEnd((k - 1) * _CHUNK_SIZE, Len(data)))]

\* _send_ble(data_bytes): the payloads given to send_raw, in order
_send_bleMutant(data, conn) ==
    IF Len(data) <= _CHUNK_SIZE THEN <<data>> ELSE Fragments(data)
_send_ble(data, conn) ==
    IF ~conn THEN <<>>
    ELSE IF Len(data) <= _CHUNK_SIZE THEN <<data>>
    ELSE Fragments(data)

\* chunk_data_size and total of _send_chunked (lines 176-177)
chunk_data_size == _CHUNK_PAYLOAD - HeaderReserve
ChunkCount(data_str) ==
    (Len(data_str) + chunk_data_size - 1) \div chunk_data_size

\* the body of the loop of lines 186-193, for i counted from 0
ChunkTextMutant(i, total, data_str) ==
    ChunkMsg(i + 1, total,
             SubSeq(data_str, i * chunk_data_size + 1,
                    Min(i * chunk_data_size + chunk_data_size, Len(data_str))))
    \o <<NL>>
ChunkText(i, total, data_str) ==
    ChunkMsg(i + 1, total,
             SubSeq(data_str, i * chunk_data_size + 1,
                    Min(i * chunk_data_size + chunk_data_size, Len(data_str))))
    \o (IF i = total - 1 THEN <<NL>> ELSE <<>>)

\* _send_chunked(data_bytes): the payloads given to _send_ble, in order
_send_chunked(data_bytes, conn) ==
    IF ~conn THEN <<>>
    ELSE LET Chunks(data_str, total) ==
                 [k \in 1..total |-> Encode(ChunkText(k - 1, total, data_str))]
             Decoded(data_str) == Chunks(data_str, ChunkCount(data_str))
         IN  Decoded(DecodeReplace(data_bytes))

\* what one extracted line hands to _send_ble (lines 161-165)
LineMessages(line_bytes, conn) ==
    IF Len(line_bytes) > _CHUNK_PAYLOAD
    THEN _send_chunked(line_bytes, conn)
    ELSE <<Append(line_bytes, NL)>>

\* the payloads given to send_raw for a sequence of _send_ble calls
RECURSIVE RawSends(_, _)
RawSendsMutant(msgs, conn) ==
    IF msgs = <<>> THEN <<>>
    ELSE RawSends(Tail(msgs), conn) \o _send_ble(Head(msgs), conn)
RawSends(msgs, conn) ==
    IF msgs = <<>> THEN <<>>
    ELSE _send_ble(Head(msgs), conn) \o RawSends(Tail(msgs), conn)

\* _process_buffer: the buffer left, the lines taken from it and the
\* payloads given to _send_ble
RECURSIVE ProcessLines(_, _)
ProcessLines(buf, conn) ==
    IF Positions(buf, NL) = {}
    THEN [buf |-> buf, lines |-> <<>>, msgs |-> <<>>]
    ELSE LET Taken(line, rest) ==
                 [buf   |-> rest.buf,
                  lines |-> <<line>> \o rest.lines,
                  msgs  |-> LineMessages(line, conn) \o rest.msgs]
             At(idx) == Taken(SubSeq(buf, 1, idx - 1),
                              ProcessLines(From(buf, idx), conn))
         IN  At(First(Positions(buf, NL)))

_process_bufferMutant(buf, conn) == ProcessLines(buf, conn)
_process_buffer(buf, conn) ==
    IF Len(buf) > _BUF_OVERFLOW /\ Positions(buf, NL) = {}
    THEN [buf |-> <<>>, lines |-> <<>>, msgs |-> <<>>]
    ELSE ProcessLines(buf, conn)

-----------------------------------------------------------------------------
(* The host transport _SerialBridge (src/mcp_server/server.py) as it is    *)
(* after __init__: no handle, the lock free, the reader thread not         *)
(* started.  The thread "sender" is the application thread that calls      *)
(* send(); "reader" is the daemon thread that runs _reader_loop.           *)

Senders == {"sender", "sender2"}
Threads == {"reader"} \cup Senders

\* self._ser is None; a handle is named by its place in `handles`
NoHandle == 0

\* first_at is None
Never == -1

\* a thread that is in no send_and_wait() call
NoWait == [active |-> FALSE, msg |-> <<>>, t0 |-> 0, deadline |-> 0,
           settle |-> 0, first_at |-> Never, lines |-> <<>>, wake |-> 0,
           mark |-> 0, upto |-> 0]

\* the RX queue is empty, nothing is on its way from the device, the clock
\* is at the origin of the model's time
WaitInit ==
    /\ _rx_queue = <<>>
    /\ rx_pipe = <<>>
    /\ rd_buf = <<>>
    /\ clock = 0
    /\ saw = [s \in Senders |-> NoWait]
    /\ answered = 0
    /\ said = 0
    /\ arrivals = <<>>

HostInit ==
    /\ _ser = NoHandle
    /\ handles = <<>>
    /\ _lock = None
    /\ at = [t \in Threads |-> IF t = "reader" THEN "unstarted" ELSE "idle"]
    /\ port = [t \in Threads |-> None]
    /\ via = [t \in Threads |-> None]
    /\ raised = [t \in Threads |-> None]
    /\ snd = [s \in Senders |->
                [msg |-> <<>>, writes |-> 0, reconnects |-> 0,
                 first |-> None, base |-> 0]]
    /\ wire = <<>>
    /\ port_ok = TRUE
    /\ faults = 0
    /\ nsend = [s \in Senders |-> 0]
    /\ rd_erred = FALSE
    /\ WaitInit

-----------------------------------------------------------------------------
(* The initial state: BLEServer.__init__ and SerialBridge.__init__, with   *)
(* the clock at the time the bridge loop starts (the 2 s of boot.py and    *)
(* the 500 ms of SerialBridge.run).                                        *)

StartTicks == 2000 + 500

DeviceInit ==
    /\ adv_pc = "start"
    /\ rx_pc = "wait"
    /\ _connection = None
    /\ link_up = FALSE
    /\ status = <<>>
    /\ halted = FALSE
    /\ tx = <<>>
    /\ nrx = 0
    /\ cb_failed = FALSE
    /\ stdin = <<>>
    /\ _buf = <<>>
    /\ _chunk_buf = EmptyBuf
    /\ _chunk_total = 0
    /\ _chunk_ts = 0
    /\ now = StartTicks
    /\ stdout = <<>>
    /\ activity = 0
    /\ sent = <<>>
    /\ extracted = <<>>
    /\ hostlines = <<>>
    /\ age = 0
    /\ ticks = 0
    /\ nin = 0
    /\ checked = TRUE

Init == DeviceInit /\ HostInit

-----------------------------------------------------------------------------
(* BLEServer: the connection supervisor _advertise_task, the receive loop  *)
(* _rx_task, and send.                                                     *)

\* BLEServer.connected
connected == _connection # None /\ link_up

\* _notify_status(event): the event is passed to the callback
Emit(log, event) ==
    IF Len(log) < MaxStatus THEN Append(log, event)
    ELSE Append(Tail(log), event)

RECURSIVE EmitAll(_, _)
EmitAll(log, events) ==
    IF events = <<>> THEN log
    ELSE EmitAll(Emit(log, Head(events)), Tail(events))

\* _notify_status, lines 53-56: does the exception of a raising callback
\* leave _notify_status?  `except Exception` catches it
StatusEscapesMutant(raises) == raises
StatusEscapes(raises) == FALSE

\* BLEServer.send(data): nothing is written unless connected
send(data) == IF connected THEN Append(tx, Encode(data)) ELSE tx

\* a run of _notify_status calls with no yield between them, after which
\* the task is at `pc` with _connection = conn; an exception that leaves
\* _notify_status at the first call leaves the task (outside the try
\* block, or inside the handler that would report it), asyncio.gather of
\* run re-raises and asyncio.run(main()) ends
Notified(events, raises, pc, conn) ==
    /\ cb_failed' = (cb_failed \/ raises)
    /\ _connection' = conn
    /\ IF StatusEscapes(raises)
       THEN /\ status' = Emit(status, Head(events))
            /\ adv_pc' = "ended"
            /\ halted' = TRUE
       ELSE /\ status' = EmitAll(status, events)
            /\ adv_pc' = pc
            /\ halted' = halted

\* the end of one iteration of _advertise_task and the head of the next,
\* run without a yield: lines 105-108, then 74-75 and the await of line 77
LoopBack(before, raises) ==
    Notified(before \o <<"disconnected", "advertising">>, raises,
             "advertise", None)

bridgeVars == <<outVars, inVars, activity>>

\* the except clauses of lines 92-103, in their order: what happens to an
\* exception raised in the try block
ExcKinds == {"DeviceDisconnectedError", "CancelledError", "OSError",
             "Exception"}
HandlerMutant(exc) ==
    IF exc = "DeviceDisconnectedError" THEN "pass"
    ELSE IF exc = "CancelledError" THEN "raise"
    ELSE IF exc = "OSError" THEN "report"
    ELSE "raise"
Handler(exc) ==
    IF exc = "DeviceDisconnectedError" THEN "pass"
    ELSE IF exc = "CancelledError" THEN "raise"
    ELSE "report"

\* the try block (lines 77-90) raises exc, with _connection = conn by then
Raised(exc, conn) ==
    \E raises \in BOOLEAN :
        IF Handler(exc) = "pass" THEN LoopBack(<<>>, raises)
        ELSE IF Handler(exc) = "report"
        THEN Notified(<<"error">>, raises, "backoff", conn)
        ELSE /\ adv_pc' = IF exc = "CancelledError" THEN "cancelled"
                          ELSE "ended"
             /\ halted' = TRUE
             /\ _connection' = conn
             /\ UNCHANGED <<status, cb_failed>>

\* the task is started by asyncio.gather: lines 74-77
AdvStart ==
    /\ ~halted /\ adv_pc = "start"
    /\ \E raises \in BOOLEAN :
          Notified(<<"advertising">>, raises, "advertise", _connection)
    /\ UNCHANGED <<hostVars, rx_pc, link_up, nrx, tx, bridgeVars>>

\* aioble.advertise returns a connection: lines 83-89; the peer may be
\* gone again by the first is_connected()
AdvAccept ==
    /\ ~halted /\ adv_pc = "advertise"
    /\ \E up \in BOOLEAN, raises \in BOOLEAN :
        /\ link_up' = up
        /\ IF up
           THEN Notified(<<"connected">>, raises, "poll", "conn")
           ELSE LoopBack(<<"connected">>, raises)
    /\ UNCHANGED <<hostVars, rx_pc, nrx, tx, bridgeVars>>

\* aioble.advertise raises DeviceDisconnectedError: lines 92-93
AdvAdvertiseDisconnected ==
    /\ ~halted /\ adv_pc = "advertise"
    /\ Raised("DeviceDisconnectedError", _connection)
    /\ UNCHANGED <<hostVars, rx_pc, link_up, nrx, tx, bridgeVars>>

\* aioble.advertise raises OSError or another Exception: lines 96-103
AdvAdvertiseFails ==
    /\ ~halted /\ adv_pc = "advertise"
    /\ \E exc \in {"OSError", "Exception"} : Raised(exc, _connection)
    /\ UNCHANGED <<hostVars, rx_pc, link_up, nrx, tx, bridgeVars>>

\* sleep_ms(500) is over and is_connected() is read again: lines 89-90
AdvPoll ==
    /\ ~halted /\ adv_pc = "poll"
    /\ IF link_up
       THEN UNCHANGED <<adv_pc, _connection, status, halted, cb_failed>>
       ELSE \E raises \in BOOLEAN : LoopBack(<<>>, raises)
    /\ UNCHANGED <<hostVars, rx_pc, link_up, nrx, tx, bridgeVars>>

\* an exception while connected (OSError or another): lines 96-103
AdvPollFails ==
    /\ ~halted /\ adv_pc = "poll"
    /\ \E exc \in {"OSError", "Exception"} : Raised(exc, _connection)
    /\ UNCHANGED <<hostVars, rx_pc, link_up, nrx, tx, bridgeVars>>

\* sleep_ms(1000) of the error handlers is over: lines 99/103, then 105-108
AdvBackoffDone ==
    /\ ~halted /\ adv_pc = "backoff"
    /\ \E raises \in BOOLEAN : LoopBack(<<>>, raises)
    /\ UNCHANGED <<hostVars, rx_pc, link_up, nrx, tx, bridgeVars>>

\* the radio loses the peer
LinkDrop ==
    /\ link_up
    /\ link_up' = FALSE
    /\ UNCHANGED <<hostVars,
                   adv_pc, rx_pc, _connection, status, halted, nrx, tx,
                   cb_failed, bridgeVars>>

\* "Echo: hi", what on_receive of main.py sends back for the message "hi"
EchoHi == <<69, 99, 104, 111, 58, 32, 104, 105>>

\* _rx_char.written returns a write (captured while the peer was there; the
\* peer may be gone by the time the task runs); on_receive (main.py) echoes
\* it with
\* BLEServer.send and returns, or a collaborator it calls raises: nothing
\* in _rx_task catches that, the task ends, asyncio.gather of run re-raises
\* and asyncio.run(main()) ends
RxWrite ==
    /\ ~halted /\ rx_pc = "wait" /\ _connection # None
    /\ nrx < MaxRx
    /\ nrx' = nrx + 1
    /\ \E raises \in BOOLEAN :
        IF raises
        THEN /\ rx_pc' = "dead" /\ halted' = TRUE /\ tx' = tx
        ELSE /\ rx_pc' = "wait" /\ halted' = halted /\ tx' = send(EchoHi)
    /\ UNCHANGED <<hostVars, adv_pc, _connection, link_up, status, cb_failed,
                   bridgeVars>>

\* _rx_char.written times out or raises DeviceDisconnectedError:
\* lines 114-119
RxTimeout ==
    /\ ~halted /\ rx_pc = "wait"
    /\ rx_pc' = "sleep"
    /\ UNCHANGED <<hostVars,
                   adv_pc, _connection, link_up, status, halted, nrx, tx,
                   cb_failed, bridgeVars>>

RxSleepDone ==
    /\ ~halted /\ rx_pc = "sleep"
    /\ rx_pc' = "wait"
    /\ UNCHANGED <<hostVars,
                   adv_pc, _connection, link_up, status, halted, nrx, tx,
                   cb_failed, bridgeVars>>

\* _rx_char.written raises anything else: not caught, as in RxWrite
RxWaitFails ==
    /\ ~halted /\ rx_pc = "wait"
    /\ rx_pc' = "dead"
    /\ halted' = TRUE
    /\ UNCHANGED <<hostVars,
                   adv_pc, _connection, link_up, status, nrx, tx, cb_failed,
                   bridgeVars>>

AdvResume == AdvStart \/ AdvPoll \/ AdvBackoffDone

NextBLE ==
    \/ AdvStart
    \/ AdvAccept
    \/ AdvAdvertiseDisconnected
    \/ AdvAdvertiseFails
    \/ AdvPoll
    \/ AdvPollFails
    \/ AdvBackoffDone
    \/ LinkDrop
    \/ RxWrite
    \/ RxTimeout
    \/ RxSleepDone
    \/ RxWaitFails

SpecBLE == Init /\ [][NextBLE]_vars

\* the scheduler resumes a task whose sleep is over
FairSpecBLE == SpecBLE /\ WF_vars(AdvResume)

\* C1: after every transport error (the task is in its backoff wait) and
\* after every disconnection (the peer is gone while the task polls), the
\* supervisor emits `advertising` and advertises again.
C1_ReadvertisesAfterFailure ==
    ((adv_pc = "backoff") \/ (adv_pc = "poll" /\ ~link_up))
        ~> (adv_pc = "advertise" /\ status[Len(status)] = "advertising")

-----------------------------------------------------------------------------
(* The clock.  A step of the clock is the time one iteration of the bridge *)
(* loop takes (its poll waits _POLL_TIMEOUT_MS); a longer step stands for  *)
(* iterations in which nothing is due, so it never jumps over an expiry.   *)

TickSteps == {_POLL_TIMEOUT_MS, _CHUNK_TIMEOUT_MS}

Tick(d) ==
    /\ ticks < MaxTicks
    /\ checked
    /\ d <= _POLL_TIMEOUT_MS \/ _chunk_buf = EmptyBuf
          \/ age + d <= _CHUNK_TIMEOUT_MS
    /\ now' = ticks_add(now, d)
    /\ age' = IF _chunk_buf = EmptyBuf THEN 0 ELSE age + d
    /\ ticks' = ticks + 1
    /\ checked' = FALSE
    /\ UNCHANGED <<hostVars,
                   bleVars, cb_failed, tx, outVars, activity, _chunk_buf,
                   _chunk_total, _chunk_ts, stdout, nin>>

\* the device stays idle, from its start until shortly before the tick
\* counter wraps
LongIdle ==
    /\ ticks = 0 /\ nin = 0
    /\ ticks < MaxTicks
    /\ checked
    /\ _chunk_buf = EmptyBuf
    /\ now # TICKS_PERIOD - _CHUNK_TIMEOUT_MS
    /\ now' = TICKS_PERIOD - _CHUNK_TIMEOUT_MS
    /\ ticks' = ticks + 1
    /\ checked' = FALSE
    /\ UNCHANGED <<hostVars,
                   bleVars, cb_failed, tx, outVars, activity, _chunk_buf,
                   _chunk_total, _chunk_ts, stdout, nin, age>>

-----------------------------------------------------------------------------
(* Inbound messages the peer writes, as on_ble_receive gets them.          *)

InMsgs ==
    { ChunkMsg(1, 2, <<65>>),             \* "CHUNK:1/2:A"
      ChunkMsg(2, 2, <<66, NL>>),         \* "CHUNK:2/2:B\n"
      ChunkMsg(1, 3, <<67>>),             \* "CHUNK:1/3:C"
      ChunkMsg(2, 1, <<68>>),             \* "CHUNK:2/1:D"
      ChunkMsg(1, 1, <<69>>),             \* "CHUNK:1/1:E"
      CHUNK_PREFIX \o <<120, SLASH, 50, COLON, 70>>,   \* "CHUNK:x/2:F"
      <<104, 105>> }                      \* "hi"

\* a new reassembly buffer begins with this chunk
Begins(p) ==
    \/ _chunk_buf = EmptyBuf
    \/ p.total # _chunk_total
    \/ age > _CHUNK_TIMEOUT_MS

\* the try/except around every call of self._on_activity (lines 57-60,
\* 104-107, 180-184, 201-205): does the exception of a raising callback
\* leave the bridge method?  `except Exception` catches it
ActivityEscapesMutant(raises) == raises
ActivityEscapes(raises) == FALSE

\* _rx_task hands one inbound message to SerialBridge.on_ble_receive; the
\* line is written before on_activity is called
InboundWrite(message) ==
    /\ nin < MaxIn
    /\ ~halted
    /\ \E r \in {on_ble_receive(message, _chunk_buf, _chunk_total,
                                 _chunk_ts, now)} :
       \E p \in {ParseChunk(message)} :
          /\ nin' = nin + 1
          /\ _chunk_buf' = r.buf
          /\ _chunk_total' = r.total
          /\ _chunk_ts' = r.ts
          /\ stdout' = stdout \o r.out
          /\ activity' = activity + r.act
          /\ age' = IF r.buf = EmptyBuf THEN 0
                    ELSE IF StartsWith(message, CHUNK_PREFIX) /\ p.ok
                            /\ Begins(p)
                         THEN 0 ELSE age
          /\ \E raises \in BOOLEAN :
                /\ cb_failed' = (cb_failed \/ (raises /\ r.act > 0))
                /\ halted' = (halted
                                \/ ActivityEscapes(raises /\ r.act > 0))
    /\ UNCHANGED <<hostVars,
                   adv_pc, rx_pc, _connection, link_up, status, nrx, tx,
                   outVars, now, ticks, checked>>

\* send_raw(data): one notification on the TX characteristic
send_raw(log, frags) == log \o frags

\* _read_available: the bytes that have arrived are appended to the
\* buffer; of what the host has written, the last byte may not have
\* arrived yet
Arrived(pipe) == {Len(pipe), IF pipe = <<>> THEN 0 ELSE Len(pipe) - 1}

\* one iteration of the loop of SerialBridge.run (lines 122-128):
\* _read_available takes the bytes that have arrived, _process_buffer
\* sends the complete lines, _check_chunk_timeout looks at the reassembly
\* buffer
BridgeTick ==
    \E k \in Arrived(stdin) :
    \E pb \in {_process_buffer(_buf \o SubSeq(stdin, 1, k), connected)} :
    \E r \in {_check_chunk_timeout(_chunk_buf, _chunk_total, _chunk_ts, now)} :
    \E ev \in {Cardinality({i \in 1..Len(pb.lines) :
                    /\ connected
                    /\ \/ Len(pb.lines[i]) > _CHUNK_PAYLOAD
                       \/ ~StartsWith(pb.lines[i], CHUNK_PREFIX)})} :
    \E raises \in BOOLEAN :
    \E esc \in {ActivityEscapes(raises /\ ev > 0)} :
        /\ ~halted
        /\ stdin' = From(stdin, k)
        /\ _buf' = pb.buf
        /\ cb_failed' = (cb_failed \/ (raises /\ ev > 0))
        /\ halted' = (halted \/ esc)
        /\ tx' = IF esc THEN tx
                 ELSE send_raw(tx, RawSends(pb.msgs, connected))
        /\ sent' = IF connected /\ ~esc THEN sent \o pb.msgs ELSE sent
        /\ extracted' = extracted \o
              [i \in 1..Len(pb.lines) |->
                   [line |-> pb.lines[i], conn |-> connected]]
        /\ _chunk_buf' = r.buf
        /\ _chunk_total' = r.total
        /\ _chunk_ts' = r.ts
        /\ stdout' = stdout \o r.out
        /\ age' = IF r.buf = EmptyBuf THEN 0 ELSE age
        /\ checked' = TRUE
        /\ activity' = activity + ev
        /\ UNCHANGED <<hostVars,
                       adv_pc, rx_pc, _connection, link_up, status, nrx,
                       hostlines, now, ticks, nin>>

NextIn ==
    \/ \E d \in TickSteps : Tick(d)
    \/ LongIdle
    \/ \E m \in InMsgs : InboundWrite(m)
    \/ BridgeTick

SpecIn == Init /\ [][NextIn]_vars


-----------------------------------------------------------------------------
(* The outbound direction with the connection supervisor: the host writes  *)
(* lines, the bridge loop sends them, the peer comes and goes.             *)

\* a line of `len` bytes, all equal to `tag`
TagLine(tag, len) == [i \in 1..len |-> tag]

\* the lines the host writes: one below the notification size, one above
\* it, one above the payload limit; no two share a byte, and none shares a
\* byte with a chunk header or with the echo of main.py
HostLines == {TagLine(97, 3), TagLine(98, 250), TagLine(100, 481)}

\* the host writes a line and its terminator to the serial link
HostWrite(line) ==
    /\ Len(hostlines) < MaxLines
    /\ \A i \in 1..Len(hostlines) : hostlines[i] # line
    /\ stdin' = stdin \o line \o <<NL>>
    /\ hostlines' = Append(hostlines, line)
    /\ UNCHANGED <<hostVars,
                   bleVars, cb_failed, tx, _buf, sent, extracted, inVars,
                   activity>>

NextOut ==
    \/ \E line \in HostLines : HostWrite(line)
    \/ BridgeTick
    \/ AdvStart
    \/ AdvAccept
    \/ AdvPoll
    \/ LinkDrop
    \/ RxWrite

SpecOut == Init /\ [][NextOut]_vars

-----------------------------------------------------------------------------
(* Claims about the outbound direction, checked under SpecOut.             *)

\* C2: while BLEServer.connected is false no step writes to the TX
\* characteristic: neither the bridge loop (send_raw from _send_ble and
\* _send_chunked) nor BLEServer.send.
C2_NothingSentUnconnected == [][~connected => tx' = tx]_vars

\* a line was taken from the buffer and an echo was asked for while not
\* connected, and nothing was ever transmitted
C2_Witness ==
    /\ ~connected
    /\ nrx > 0
    /\ \E i \in 1..Len(extracted) :
          ~extracted[i].conn /\ Len(extracted[i].line) > _CHUNK_PAYLOAD
    /\ \E i \in 1..Len(extracted) :
          ~extracted[i].conn /\ Len(extracted[i].line) <= _CHUNK_PAYLOAD
    /\ tx = <<>>

\* the number of bytes equal to c in the payloads of a log
RECURSIVE Occurrences(_, _)
Occurrences(log, c) ==
    IF log = <<>> THEN 0
    ELSE Cardinality(Positions(Head(log), c)) + Occurrences(Tail(log), c)

\* C3: every line taken from the host buffer is gone from the buffer; if
\* it was taken while not connected, none of its bytes is ever on the TX
\* characteristic, and otherwise its bytes are there at most once.
C3_AtMostOnce ==
    \A i \in 1..Len(extracted) :
       \E e \in {extracted[i]} : \E n \in {Occurrences(tx, e.line[1])} :
          /\ Positions(_buf, e.line[1]) = {}
          /\ n <= Len(e.line)
          /\ ~e.conn => n = 0

\* a line was dropped while not connected, the peer has come back and a
\* later line went out, once
C3_Witness ==
    /\ connected
    /\ Len(extracted) = 2
    /\ ~extracted[1].conn
    /\ extracted[2].conn
    /\ Len(extracted[2].line) > _CHUNK_SIZE
    /\ Occurrences(tx, extracted[1].line[1]) = 0
    /\ Occurrences(tx, extracted[2].line[1]) = Len(extracted[2].line)

-----------------------------------------------------------------------------
(* The round trip: one host line goes through _process_buffer, and every   *)
(* payload handed to _send_ble comes back, whole and in order, as a write  *)
(* that _rx_task decodes and gives to on_ble_receive.                      *)

\* one hexadecimal digit, lower case
Hex(d) == IF d < 10 THEN 48 + d ELSE 87 + d

\* one byte as str(bytes) shows it between the quotes q
ReprByte(b, q) ==
    IF b = 92 THEN <<92, 92>>
    ELSE IF b = q THEN <<92, q>>
    ELSE IF b = 10 THEN <<92, 110>>
    ELSE IF b = 13 THEN <<92, 114>>
    ELSE IF b = 9 THEN <<92, 116>>
    ELSE IF b \in 32..126 THEN <<b>>
    ELSE <<92, 120, Hex(b \div 16), Hex(b % 16)>>

RECURSIVE ReprRange(_, _, _, _)
ReprRange(data, q, lo, hi) ==
    IF lo > hi THEN <<>>
    ELSE IF lo = hi THEN ReprByte(data[lo], q)
    ELSE ReprRange(data, q, lo, (lo + hi) \div 2)
            \o ReprRange(data, q, ((lo + hi) \div 2) + 1, hi)

\* str(data) for a bytes value: b'...', in double quotes when the bytes
\* hold a single quote and no double quote
BytesRepr(data) ==
    LET Quoted(q) == <<98, q>> \o ReprRange(data, q, 1, Len(data)) \o <<q>>
    IN  Quoted(IF Positions(data, 39) # {} /\ Positions(data, 34) = {}
               THEN 34 ELSE 39)

\* lines 121-124 of _rx_task: data.decode("utf-8"), str(data) on UnicodeError
RxDecode(data) ==
    IF ValidUtf8(data) THEN DecodeReplace(data) ELSE BytesRepr(data)

\* a line of `len` lower-case letters
Fill(len, seed) == [i \in 1..len |-> 97 + ((i * seed) % 26)]

\* the host lines of the round trip: lengths around the notification size,
\* the payload limit and the chunk size, and lines whose content matters
RTLines ==
    {Fill(len, seed) : len \in {0, 1, 199, 200, 201, 480, 481, 920, 921},
                       seed \in {1, 7}}
    \cup {CHUNK_PREFIX \o <<49, SLASH, 49, COLON, 120>>,     \* "CHUNK:1/1:x"
          [i \in 1..482 |-> IF i % 2 = 1 THEN 195 ELSE 169], \* 241 times e-acute
          [i \in 1..200 |-> IF i % 2 = 1 THEN 195 ELSE 169], \* 100 times e-acute
          [i \in 1..500 |-> IF i % 7 = 0 THEN COLON ELSE SLASH],
          <<255, 97>>,                                      \* not UTF-8
          [i \in 1..481 |-> IF i = 1 THEN 255 ELSE 97]}      \* not UTF-8

\* the host has written one line; the peer is connected or not
InitRT ==
    \E m \in RTLines, up \in BOOLEAN :
        /\ adv_pc = IF up THEN "poll" ELSE "advertise"
        /\ rx_pc = "wait"
        /\ _connection = IF up THEN "conn" ELSE None
        /\ link_up = up
        /\ status = IF up THEN <<"advertising", "connected">>
                    ELSE <<"advertising">>
        /\ halted = FALSE
        /\ tx = <<>>
        /\ nrx = 0
        /\ cb_failed = FALSE
        /\ stdin = Append(m, NL)
        /\ _buf = <<>>
        /\ _chunk_buf = EmptyBuf
        /\ _chunk_total = 0
        /\ _chunk_ts = 0
        /\ now = StartTicks
        /\ stdout = <<>>
        /\ activity = 0
        /\ sent = <<>>
        /\ extracted = <<>>
        /\ hostlines = <<m>>
        /\ age = 0
        /\ ticks = 0
        /\ nin = 0
        /\ checked = TRUE
        /\ HostInit

\* the next payload that went out comes back as an inbound write
Loopback ==
    /\ nin < Len(sent)
    /\ InboundWrite(RxDecode(sent[nin + 1]))

NextRT ==
    \/ BridgeTick
    \/ Loopback

SpecRT == InitRT /\ [][NextRT]_vars

-----------------------------------------------------------------------------
(* Claims about the round trip, checked under SpecRT.                      *)

\* sys.stdout.write(line): the bytes the host receives, line by line
HostReceived == [i \in 1..Len(stdout) |-> Encode(stdout[i])]

\* the line of the round trip is chunked and was taken while connected
ChunkedOut ==
    /\ Len(hostlines[1]) > _CHUNK_PAYLOAD
    /\ extracted # <<>>
    /\ extracted[1].conn

\* the line of the round trip is not chunked and was taken while connected
PlainOut ==
    /\ Len(hostlines[1]) <= _CHUNK_PAYLOAD
    /\ extracted # <<>>
    /\ extracted[1].conn

\* C4: a line m longer than the payload limit goes out as
\* N = ceil(len(m)/chunk_size) chunks, and once these have been fed to the
\* reassembler in index order the host has received exactly m and one
\* terminator (and nothing before that).
C4_ChunkRoundTrip ==
    ChunkedOut =>
        /\ Len(sent) = (Len(hostlines[1]) + chunk_data_size - 1)
                          \div chunk_data_size
        /\ HostReceived = IF nin = Len(sent)
                          THEN <<Append(hostlines[1], NL)>> ELSE <<>>

\* C5: a line m of at most 480 bytes, whatever its content, is sent as one
\* unchunked message m plus terminator, and once that message has gone
\* through on_ble_receive the host has received exactly m plus terminator.
C5_ShortRoundTrip ==
    PlainOut =>
        /\ sent = <<Append(hostlines[1], NL)>>
        /\ HostReceived = IF nin = 1 THEN <<Append(hostlines[1], NL)>>
                          ELSE <<>>

\* C6: for a line longer than 480 bytes the messages sent are, in order,
\* framed CHUNK:1/N:, CHUNK:2/N:, ..., CHUNK:N/N: where N is their number
\* (at least one when connected), and only the last ends with the
\* terminator.
C6_ChunkFraming ==
    (Len(hostlines[1]) > _CHUNK_PAYLOAD /\ extracted # <<>>) =>
        /\ extracted[1].conn => Len(sent) >= 1
        /\ \A i \in 1..Len(sent) :
              /\ StartsWith(sent[i], ChunkMsg(i, Len(sent), <<>>))
              /\ EndsWith(sent[i], NL) <=> (i = Len(sent))

\* a line of three chunks has gone out
C6_Witness ==
    /\ Len(hostlines[1]) > _CHUNK_PAYLOAD
    /\ Len(sent) = 3
    /\ EndsWith(sent[3], NL)

-----------------------------------------------------------------------------
(* Claims about the inbound direction, checked under SpecIn.               *)

\* the payloads of a buffer concatenated by ascending index, every entry
RECURSIVE JoinAsc(_)
JoinAsc(buf) ==
    IF DOMAIN buf = {} THEN <<>>
    ELSE LET k == CHOOSE i \in DOMAIN buf : \A j \in DOMAIN buf : i >= j
         IN  JoinAsc([i \in (DOMAIN buf) \ {k} |-> buf[i]]) \o buf[k]

ValidChunk(m) == StartsWith(m, CHUNK_PREFIX) /\ ParseChunk(m).ok

\* the step handles inbound message m
Handles(m) == InboundWrite(m)

\* C7: reassembly completes exactly when the buffer (what was kept of it,
\* with the chunk just received) holds `total` entries; the line written is
\* then the concatenation by ascending index of every received payload, and
\* buffer, total and timestamp are cleared.
C7_CompleteJoinsAll ==
    [][\A m \in InMsgs : (Handles(m) /\ ValidChunk(m)) =>
        LET p == ParseChunk(m)
            kept == IF _chunk_buf' = EmptyBuf /\ stdout' # stdout
                    THEN {_chunk_buf, EmptyBuf}
                    ELSE {[i \in (DOMAIN _chunk_buf') \ {p.n} |->
                              _chunk_buf'[i]]}
            full == {Put(k, p.n, p.data) : k \in kept}
        IN  /\ (stdout' # stdout) <=>
                 (\E b \in full : Cardinality(DOMAIN b) = p.total)
            /\ (stdout' # stdout) =>
                 /\ \E b \in full :
                       /\ Cardinality(DOMAIN b) = p.total
                       /\ stdout' = Append(stdout, Terminated(JoinAsc(b)))
                 /\ _chunk_buf' = EmptyBuf
                 /\ _chunk_total' = 0
                 /\ _chunk_ts' = 0
      ]_vars

\* the step is one pass of the bridge loop over an aged partial buffer
LoopOverAged ==
    /\ ~checked /\ checked'
    /\ _chunk_buf # EmptyBuf
    /\ age > _CHUNK_TIMEOUT_MS

\* C8: when the bridge loop runs over a partial buffer older than the
\* timeout, it writes ERR:CHUNK_TIMEOUT:received k/total chunks and resets
\* buffer, total and timestamp.
C8_TimeoutReported ==
    [][LoopOverAged =>
        /\ stdout' = Append(stdout, ErrLine(Cardinality(DOMAIN _chunk_buf),
                                            _chunk_total))
        /\ _chunk_buf' = EmptyBuf
        /\ _chunk_total' = 0
        /\ _chunk_ts' = 0
      ]_vars

\* an aged partial buffer loses an entry and nothing is written to the host
DroppedSilently ==
    /\ _chunk_buf # EmptyBuf
    /\ age > _CHUNK_TIMEOUT_MS
    /\ \E i \in DOMAIN _chunk_buf : i \notin DOMAIN _chunk_buf'
    /\ stdout' = stdout

\* C9: no step drops a partial buffer older than the timeout without
\* writing a line to the host.
C9_NoSilentDrop == [][~DroppedSilently]_vars

\* C10: a valid chunk announcing another total than the sequence in progress
\* resets reassembly: the buffer then expects the new total, holds only the
\* new chunk and its timer runs from the arrival of that chunk (or the new
\* chunk completed its sequence at once and the state is cleared); no old
\* payload is written.
C10_NewTotalResets ==
    [][\A m \in InMsgs :
        (Handles(m) /\ ValidChunk(m) /\ _chunk_buf # EmptyBuf
           /\ ParseChunk(m).total # _chunk_total) =>
        LET p == ParseChunk(m) IN
        \/ /\ _chunk_total' = p.total
           /\ _chunk_buf' = Put(EmptyBuf, p.n, p.data)
           /\ _chunk_ts' # 0
           /\ ticks_diff(now, _chunk_ts') = 0
           /\ stdout' = stdout
        \/ /\ p.total = 1
           /\ _chunk_buf' = EmptyBuf /\ _chunk_total' = 0 /\ _chunk_ts' = 0
           /\ stdout' = Append(stdout,
                   Terminated(Reassemble(Put(EmptyBuf, p.n, p.data), 1)))
      ]_vars

-----------------------------------------------------------------------------
(* Forwarding: inbound messages that are no well-formed chunk, with a few  *)
(* chunks between them so that a reassembly is in progress.                *)

\* messages starting with CHUNK: whose header does not parse
MalformedMsgs ==
    { CHUNK_PREFIX \o <<120, SLASH, 50, COLON, 70>>,       \* "CHUNK:x/2:F"
      CHUNK_PREFIX \o <<49, SLASH, 121, COLON, 71>>,       \* "CHUNK:1/y:G"
      CHUNK_PREFIX \o <<SLASH, 50, COLON, 71>>,            \* "CHUNK:/2:G"
      CHUNK_PREFIX \o <<49, SLASH, 50>>,                   \* "CHUNK:1/2"
      CHUNK_PREFIX \o <<49, SLASH, 50, SLASH, 51, COLON, 72>>,
                                                          \* "CHUNK:1/2/3:H"
      CHUNK_PREFIX \o <<49, 50, COLON, 73, NL>>,           \* "CHUNK:12:I\n"
      CHUNK_PREFIX }                                      \* "CHUNK:"

\* messages that do not start with CHUNK:
PlainMsgs ==
    { <<104, 105>>,                                       \* "hi"
      <<111, 107, NL>>,                                   \* "ok\n"
      <<>>,                                               \* ""
      <<NL, NL>>,                                         \* "\n\n"
      <<99, 104, 117, 110, 107, 58, 49, 47, 49, 58, 97>>, \* "chunk:1/1:a"
      <<32>> \o ChunkMsg(1, 1, <<97>>),                    \* " CHUNK:1/1:a"
      <<67, 72, 85, 78, 75>> }                            \* "CHUNK"

FwdMsgs ==
    MalformedMsgs \cup PlainMsgs
        \cup {ChunkMsg(1, 2, <<65>>), ChunkMsg(1, 3, <<67>>)}

NextFwd == \E m \in FwdMsgs : InboundWrite(m)

SpecFwd == Init /\ [][NextFwd]_vars

\* C11: a message starting with CHUNK: whose header is malformed is
\* written to the host as RAW:<original> and a terminator; the handler
\* returns (the program goes on) and buffer, total and timestamp are
\* unchanged.
C11_MalformedForwardedRaw ==
    [][\A m \in MalformedMsgs : Handles(m) =>
          /\ stdout' = Append(stdout, RAW_PREFIX \o m \o <<NL>>)
          /\ _chunk_buf' = _chunk_buf
          /\ _chunk_total' = _chunk_total
          /\ _chunk_ts' = _chunk_ts
          /\ ~halted'
      ]_vars

\* a malformed chunk was forwarded while a reassembly was in progress
C11_Witness ==
    /\ _chunk_buf # EmptyBuf
    /\ _chunk_ts # 0
    /\ \E i \in 1..Len(stdout) : \E m \in MalformedMsgs :
          /\ stdout[i] = RAW_PREFIX \o m \o <<NL>>
          /\ \E j \in 1..Len(m) : m[j] = SLASH

\* C12: a message that does not start with CHUNK: is written to the host
\* as it is, with a terminator appended only when it has none; one
\* activity event is reported and buffer, total and timestamp are
\* unchanged.
C12_PlainForwardedVerbatim ==
    [][\A m \in PlainMsgs : Handles(m) =>
          /\ stdout' = Append(stdout,
                              IF m # <<>> /\ m[Len(m)] = NL THEN m
                              ELSE m \o <<NL>>)
          /\ activity' = activity + 1
          /\ _chunk_buf' = _chunk_buf
          /\ _chunk_total' = _chunk_total
          /\ _chunk_ts' = _chunk_ts
      ]_vars

\* a terminated and an unterminated message were forwarded while a
\* reassembly was in progress
C12_Witness ==
    /\ _chunk_buf # EmptyBuf
    /\ \E i, j \in 1..Len(stdout) :
          /\ stdout[i] = <<111, 107, NL>>
          /\ stdout[j] = <<104, 105, NL>>

-----------------------------------------------------------------------------
(* The supervisor with every way its try block can be left, and the        *)
(* consumers' callbacks: BLEServer.run next to one pass of the bridge.     *)

\* task.cancel(): CancelledError is raised at the await the task is
\* suspended in; inside the try block line 94-95 re-raises it, in the
\* sleep of a handler (lines 99, 103) nothing catches it
AdvCancelled ==
    /\ ~halted /\ adv_pc \in {"advertise", "poll", "backoff"}
    /\ IF adv_pc = "backoff"
       THEN /\ adv_pc' = "cancelled"
            /\ halted' = TRUE
            /\ UNCHANGED <<_connection, status, cb_failed>>
       ELSE Raised("CancelledError", _connection)
    /\ UNCHANGED <<hostVars, rx_pc, link_up, nrx, tx, bridgeVars>>

\* aioble.advertise returns a connection and line 83 stores it, then
\* reading the peer identity (connection.device, lines 84-85) raises
AdvAcceptFails ==
    /\ ~halted /\ adv_pc = "advertise"
    /\ \E up \in BOOLEAN, exc \in {"OSError", "Exception"} :
        /\ link_up' = up
        /\ Raised(exc, "conn")
    /\ UNCHANGED <<hostVars, rx_pc, nrx, tx, bridgeVars>>

NextSup ==
    \/ NextBLE
    \/ AdvCancelled
    \/ AdvAcceptFails
    \/ HostWrite(TagLine(97, 3))
    \/ BridgeTick

SpecSup == Init /\ [][NextSup]_vars

\* C13: _advertise_task leaves its loop only through CancelledError: it
\* never ends with another exception and never returns.
C13_LeavesOnlyCancelled ==
    adv_pc \in {"start", "advertise", "poll", "backoff", "cancelled"}

\* the supervisor advertises again after an error was reported for a
\* connection whose peer identity could not be read, with a status
\* callback that raised
C13_Witness ==
    /\ adv_pc = "advertise"
    /\ cb_failed
    /\ ~halted
    /\ Len(status) >= 4
    /\ status[Len(status) - 3] = "advertising"
    /\ status[Len(status) - 2] = "error"
    /\ status[Len(status) - 1] = "disconnected"

\* C14: no error ends the receive loop: _rx_task is waiting or sleeping
\* and BLEServer.run has not ended, whatever on_receive and the wait for
\* a write raised.
C14_RxTaskSurvives == rx_pc \in {"wait", "sleep"} /\ ~halted

\* C15: a step in which a consumer callback raises does not end any task;
\* the supervisor goes where the emitted event says (`connected` with the
\* connection stored, `advertising` with no connection and advertising
\* again, `error` into the back-off), and a bridge step still forwards
\* its line.
C15_CallbackFailureContained ==
    [][(cb_failed' /\ ~cb_failed) =>
          /\ ~halted'
          /\ adv_pc' \in {"advertise", "poll", "backoff"}
          /\ activity' = activity =>
                \E last \in {status'[Len(status')]} :
                   /\ last \in {"connected", "advertising", "error"}
                   /\ last = "connected" =>
                         _connection' = "conn" /\ adv_pc' = "poll"
                   /\ last = "advertising" =>
                         _connection' = None /\ adv_pc' = "advertise"
                   /\ last = "error" => adv_pc' = "backoff"
          /\ activity' > activity =>
                /\ status' = status /\ adv_pc' = adv_pc
                /\ _connection' = _connection
                /\ tx' = Append(tx, Append(TagLine(97, 3), NL))
      ]_vars

\* a callback has raised, the peer is connected and the line
\* of the host is on the TX characteristic
C15_Witness ==
    /\ cb_failed
    /\ connected
    /\ adv_pc = "poll"
    /\ \E i \in 1..Len(tx) : tx[i] = Append(TagLine(97, 3), NL)

-----------------------------------------------------------------------------
(* Overflow of the host line buffer: the host has written a long run of    *)
(* bytes without a terminator, then writes lines.                          *)

\* unterminated input: as long as the buffer may get, and one byte longer
Blobs == {TagLine(120, _BUF_OVERFLOW), TagLine(120, _BUF_OVERFLOW + 1)}

InitOvf ==
    \E blob \in Blobs, up \in BOOLEAN :
        /\ adv_pc = IF up THEN "poll" ELSE "advertise"
        /\ rx_pc = "wait"
        /\ _connection = IF up THEN "conn" ELSE None
        /\ link_up = up
        /\ status = IF up THEN <<"advertising", "connected">>
                    ELSE <<"advertising">>
        /\ halted = FALSE
        /\ tx = <<>>
        /\ nrx = 0
        /\ cb_failed = FALSE
        /\ stdin = blob
        /\ _buf = <<>>
        /\ _chunk_buf = EmptyBuf
        /\ _chunk_total = 0
        /\ _chunk_ts = 0
        /\ now = StartTicks
        /\ stdout = <<>>
        /\ activity = 0
        /\ sent = <<>>
        /\ extracted = <<>>
        /\ hostlines = <<>>
        /\ age = 0
        /\ ticks = 0
        /\ nin = 0
        /\ checked = TRUE
        /\ HostInit

NextOvf ==
    \/ \E line \in HostLines : HostWrite(line)
    \/ BridgeTick

SpecOvf == InitOvf /\ [][NextOvf]_vars

\* the buffer as _process_buffer finds it in this pass of the bridge loop:
\* what was buffered and the bytes this pass has read
BufferAtCall == _buf \o SubSeq(stdin, 1, Len(stdin) - Len(stdin'))

\* C16: a pass of the bridge loop that finds more than 4096 bytes and no
\* terminator in the buffer discards the whole buffer and transmits
\* nothing, and the bridge keeps running.
C16_OverflowDiscards ==
    [][(hostlines' = hostlines
          /\ Len(BufferAtCall) > _BUF_OVERFLOW
          /\ Positions(BufferAtCall, NL) = {}) =>
          /\ _buf' = <<>>
          /\ tx' = tx
          /\ sent' = sent
          /\ extracted' = extracted
          /\ ~halted'
      ]_vars

\* after the unterminated input the host wrote a line, and exactly that
\* line was taken from the buffer and transmitted: the input before it was
\* discarded and the bridge went on
C16_Witness ==
    /\ Len(hostlines) = 1
    /\ extracted = <<[line |-> hostlines[1], conn |-> TRUE]>>
    /\ _buf = <<>>
    /\ stdin = <<>>
    /\ tx # <<>>
    /\ Occurrences(tx, 120) = 0

-----------------------------------------------------------------------------
(* The host transport: _SerialBridge of src/mcp_server/server.py.  Two     *)
(* threads run its code: "sender" calls send(), "reader" runs              *)
(* _reader_loop.  Every read or write of self._ser, every I/O call on a    *)
(* handle and every time.sleep is a step of its own, so that the threads   *)
(* interleave as the interpreter lets them.  A handle is a record          *)
(*   open  : what its is_open returns,                                     *)
(*   stale : the device behind it is gone, I/O on it raises,               *)
(*   port  : the name it was opened with.                                  *)

deviceVars == <<bleVars, cb_failed, tx, outVars, inVars, activity>>

\* the port the device enumerates as
DevicePort == "ttyACM0"

\* KEYMASTER_PORT is not set
_PORT == ""

\* the exception classes the code tells apart; SerialException and
\* ConnectionError are subclasses of OSError
IsOSError(e) ==
    e \in {"SerialException", "PermissionError", "OSError", "ConnectionError"}

is_connected == _ser # NoHandle /\ handles[_ser].open

port_name == IF _ser # NoHandle THEN handles[_ser].port ELSE None

\* the device is listed when it is plugged in
_find_port == IF port_ok THEN DevicePort ELSE None

\* port or _PORT or self._find_port()
ResolvePortMutant(p) ==
    IF p \notin {None, ""} THEN p
    ELSE IF _PORT \notin {None, ""} THEN _PORT
    ELSE DevicePort
ResolvePort(p) ==
    IF p \notin {None, ""} THEN p
    ELSE IF _PORT \notin {None, ""} THEN _PORT
    ELSE _find_port

\* what serial.Serial(port) can do: it fails when the port is not there,
\* and a port this process holds open through another handle opens again
\* or not, as the platform has it
OpenOutcomes(p) ==
    IF ~port_ok \/ p # DevicePort THEN {FALSE}
    ELSE IF \E i \in 1..Len(handles) : handles[i].open /\ ~handles[i].stale
         THEN {TRUE, FALSE}
         ELSE {TRUE}

\* what an I/O call through self._ser raises (None: nothing)
IoOutcome ==
    IF _ser = NoHandle THEN "AttributeError"
    ELSE IF ~handles[_ser].open \/ handles[_ser].stale
         THEN "SerialException"
         ELSE None

\* the try/except of _reader_loop around self._reconnect()
ReconnectCaughtMutant(e) == FALSE
ReconnectCaught(e) == TRUE

\* the except clauses of _reader_loop
ReaderHandler(e) == IF IsOSError(e) THEN "reconnect" ELSE "nap"

\* the try/except of send around the first write; the second write is
\* outside any try
OnWriteErrorMutant(attempt, e) == IF IsOSError(e) THEN "reconnect" ELSE "raise"
OnWriteError(attempt, e) ==
    IF attempt = 1 /\ IsOSError(e) THEN "reconnect" ELSE "raise"

\* where connect() returns to
ReturnTo(t) ==
    IF t = "reader" THEN "check"
    ELSE IF via[t] = "_reconnect" THEN "lock2" ELSE "lock1"

\* an exception leaves connect() or _reconnect() in thread t
Unwinds(t, e) ==
    /\ raised' = [raised EXCEPT ![t] = e]
    /\ at' = [at EXCEPT ![t] =
                IF t \in Senders THEN "raised"
                ELSE IF ReconnectCaught(e) THEN "sleep2" ELSE "dead"]

\* connect: if self.is_connected: return
ConnectCheck(t) ==
    /\ at[t] = "connect"
    /\ at' = [at EXCEPT ![t] =
                IF is_connected THEN ReturnTo(t) ELSE "open"]
    /\ UNCHANGED <<deviceVars, waitVars,
                   _ser, handles, _lock, port, via, raised, snd,
                   wire, port_ok, faults, nsend, rd_erred>>

\* connect: the port is resolved and opened, self._ser is assigned
ConnectOpen(t) ==
    /\ at[t] = "open"
    /\ Len(handles) < MaxHandles
    /\ \E p \in {ResolvePort(port[t])} :
          IF p = None
          THEN /\ Unwinds(t, "ConnectionError")
               /\ UNCHANGED <<_ser, handles>>
          ELSE \E ok \in OpenOutcomes(p) :
                  IF ok
                  THEN /\ handles' = Append(handles,
                              [open |-> TRUE, stale |-> FALSE, port |-> p])
                       /\ _ser' = Len(handles) + 1
                       /\ at' = [at EXCEPT ![t] = "settle"]
                       /\ UNCHANGED raised
                  ELSE /\ Unwinds(t, "SerialException")
                       /\ UNCHANGED <<_ser, handles>>
    /\ UNCHANGED <<deviceVars, waitVars,
                   _lock, port, via, snd, wire, port_ok, faults,
                   nsend, rd_erred>>

\* connect: time.sleep(0.5)
ConnectSettled(t) ==
    /\ at[t] = "settle"
    /\ at' = [at EXCEPT ![t] = "reset"]
    /\ UNCHANGED <<deviceVars, waitVars,
                   _ser, handles, _lock, port, via, raised, snd,
                   wire, port_ok, faults, nsend, rd_erred>>

\* connect: self._ser.reset_input_buffer(): what the port has received and
\* nobody has read is thrown away
ConnectReset(t) ==
    /\ at[t] = "reset"
    /\ IF IoOutcome = None
       THEN /\ at' = [at EXCEPT ![t] = "thread"]
            /\ rx_pipe' = <<>>
            /\ UNCHANGED raised
       ELSE /\ Unwinds(t, IoOutcome)
            /\ UNCHANGED rx_pipe
    /\ UNCHANGED <<deviceVars, _ser, handles, _lock, port, via, snd, wire,
                   port_ok, faults, nsend, rd_erred, _rx_queue, rd_buf,
                   clock, saw, answered, said, arrivals>>

\* connect: the reader thread is started unless it is alive
ConnectThread(t) ==
    /\ at[t] = "thread"
    /\ at' = [u \in Threads |->
                IF u = t THEN ReturnTo(t)
                ELSE IF at[u] = "unstarted" THEN "check" ELSE at[u]]
    /\ UNCHANGED <<deviceVars, waitVars,
                   _ser, handles, _lock, port, via, raised, snd,
                   wire, port_ok, faults, nsend, rd_erred>>

\* _reconnect: port = self.port_name
ReconnectPort(t) ==
    /\ at[t] = "port_name"
    /\ port' = [port EXCEPT ![t] = port_name]
    /\ at' = [at EXCEPT ![t] = "close"]
    /\ UNCHANGED <<deviceVars, waitVars,
                   _ser, handles, _lock, via, raised, snd, wire,
                   port_ok, faults, nsend, rd_erred>>

\* _reconnect: if self._ser: self._ser.close()
ReconnectClose(t) ==
    /\ at[t] = "close"
    /\ handles' = IF _ser # NoHandle
                  THEN [handles EXCEPT ![_ser].open = FALSE]
                  ELSE handles
    /\ at' = [at EXCEPT ![t] = "forget"]
    /\ UNCHANGED <<deviceVars, waitVars,
                   _ser, _lock, port, via, raised, snd, wire,
                   port_ok, faults, nsend, rd_erred>>

\* _reconnect: self._ser = NoHandle
ReconnectForget(t) ==
    /\ at[t] = "forget"
    /\ _ser' = NoHandle
    /\ at' = [at EXCEPT ![t] = "cooldown"]
    /\ UNCHANGED <<deviceVars, waitVars,
                   handles, _lock, port, via, raised, snd, wire,
                   port_ok, faults, nsend, rd_erred>>

\* _reconnect: time.sleep(1.0), then self.connect(port=port)
ReconnectCooled(t) ==
    /\ at[t] = "cooldown"
    /\ via' = [via EXCEPT ![t] = "_reconnect"]
    /\ at' = [at EXCEPT ![t] = "connect"]
    /\ UNCHANGED <<deviceVars, waitVars,
                   _ser, handles, _lock, port, raised, snd, wire,
                   port_ok, faults, nsend, rd_erred>>

\* the messages the application sends
HostMsgs == {<<104, 105>>, <<111, 107, 10>>}          \* "hi", "ok\n"

\* a write reaches the handle in two parts: Serial.write hands the bytes to
\* the driver piece by piece and other threads run in between
Halves(m) == <<SubSeq(m, 1, Len(m) \div 2),
               SubSeq(m, Len(m) \div 2 + 1, Len(m))>>

\* threading.Lock.acquire: it blocks while another thread holds the lock
AcquirableMutant(holder) == TRUE
Acquirable(holder) == holder = None

\* thread s calls send(message)
SendCall(s, message) ==
    /\ at[s] = "idle"
    /\ nsend[s] < MaxSends
    /\ nsend' = [nsend EXCEPT ![s] = @ + 1]
    /\ snd' = [snd EXCEPT ![s] =
                  [msg |-> Encode(Terminated(message)), writes |-> 0,
                   reconnects |-> 0, first |-> None, base |-> Len(wire)]]
    /\ raised' = [raised EXCEPT ![s] = None]
    /\ at' = [at EXCEPT ![s] = "ensure"]
    /\ UNCHANGED <<deviceVars, waitVars, _ser, handles, _lock, port, via, wire,
                   port_ok, faults, rd_erred>>

\* send: self._ensure_connected()
SendEnsure(s) ==
    /\ at[s] = "ensure"
    /\ IF is_connected
       THEN /\ at' = [at EXCEPT ![s] = "lock1"]
            /\ UNCHANGED <<port, via>>
       ELSE /\ at' = [at EXCEPT ![s] = "connect"]
            /\ port' = [port EXCEPT ![s] = None]
            /\ via' = [via EXCEPT ![s] = "_ensure_connected"]
    /\ UNCHANGED <<deviceVars, waitVars,
                   _ser, handles, _lock, raised, snd, wire,
                   port_ok, faults, nsend, rd_erred>>

\* send: with self._lock
SendAcquire(s) ==
    /\ at[s] \in {"lock1", "lock2"}
    /\ Acquirable(_lock)
    /\ _lock' = s
    /\ at' = [at EXCEPT ![s] =
                IF at[s] = "lock1" THEN "write1" ELSE "write2"]
    /\ UNCHANGED <<deviceVars, waitVars,
                   _ser, handles, port, via, raised, snd, wire,
                   port_ok, faults, nsend, rd_erred>>

\* send: self._ser.write(encoded) is called, the first time or the second.
\* If it raises, the with block is left and the lock released; else the
\* first part of the bytes is with the driver.
SendWrite(s) ==
    /\ at[s] \in {"write1", "write2"}
    /\ \E attempt \in {IF at[s] = "write1" THEN 1 ELSE 2} :
       \E e \in {IoOutcome} :
       \E then \in {IF e = None THEN "write" ELSE OnWriteError(attempt, e)} :
          /\ wire' = IF e = None THEN Append(wire, Halves(snd[s].msg)[1])
                     ELSE wire
          /\ _lock' = IF e = None THEN _lock ELSE None
          /\ snd' = [snd EXCEPT
                        ![s].writes = @ + 1,
                        ![s].first = IF attempt = 1 THEN e ELSE @,
                        ![s].reconnects =
                            IF then = "reconnect" THEN @ + 1 ELSE @]
          /\ raised' = [raised EXCEPT ![s] = e]
          /\ at' = [at EXCEPT ![s] =
                       CASE then = "write" -> "writing"
                         [] then = "reconnect" -> "port_name"
                         [] OTHER -> "raised"]
          /\ saw' = IF e = None THEN [saw EXCEPT ![s].mark = Len(arrivals)]
                    ELSE saw
    /\ UNCHANGED <<deviceVars, _ser, handles, port, via, port_ok, faults,
                   nsend, rd_erred, _rx_queue, rx_pipe, rd_buf, clock,
                   answered, said, arrivals>>

\* send: write() returns with the rest of the bytes written; the with
\* block ends and the lock is released
SendWritten(s) ==
    /\ at[s] = "writing"
    /\ wire' = Append(wire, Halves(snd[s].msg)[2])
    /\ _lock' = None
    /\ at' = [at EXCEPT ![s] = "returned"]
    /\ UNCHANGED <<deviceVars, waitVars, _ser, handles, port, via, raised,
                   snd, port_ok, faults, nsend, rd_erred>>

\* send() is over: it returned to a caller other than send_and_wait, or it
\* raised, which send_and_wait passes on to its own caller
SendDone(s) ==
    /\ \/ at[s] = "raised"
       \/ at[s] = "returned" /\ ~saw[s].active
    /\ at' = [at EXCEPT ![s] = "idle"]
    /\ saw' = [saw EXCEPT ![s] = NoWait]
    /\ UNCHANGED <<deviceVars, _ser, handles, _lock, port, via, raised, snd,
                   wire, port_ok, faults, nsend, rd_erred, _rx_queue, rx_pipe,
                   rd_buf, clock, answered, said, arrivals>>

\* self._ser.read(512)
_READ_SIZE == 512

\* deque(maxlen=500)
_RX_MAXLEN == 500

\* deque.append on a bounded deque: when it is full the oldest entry goes
QueueAppendMutant(q, e) == IF Len(q) >= _RX_MAXLEN THEN q ELSE Append(q, e)
QueueAppend(q, e) ==
    IF Len(q) >= _RX_MAXLEN THEN Append(Tail(q), e) ELSE Append(q, e)

RECURSIVE AppendAll(_, _)
AppendAll(q, es) ==
    IF es = <<>> THEN q ELSE AppendAll(QueueAppend(q, Head(es)), Tail(es))

\* the while loop of _reader_loop over buf: every complete line is decoded
\* and stripped, the lines that are not empty are kept; rest is what stays
\* in buf
RECURSIVE ReaderLines(_)
ReaderLines(b) ==
    LET Cut(nl) ==
            IF nl = {} THEN [texts |-> <<>>, rest |-> b]
            ELSE LET Split(idx) ==
                         LET Line(text, more) ==
                                 [texts |-> IF text = <<>> THEN more.texts
                                            ELSE <<text>> \o more.texts,
                                  rest |-> more.rest]
                         IN  Line(Strip(DecodeReplace(SubSeq(b, 1, idx - 1))),
                                  ReaderLines(From(b, idx)))
                 IN  Split(CHOOSE i \in nl : \A j \in nl : i <= j)
    IN  Cut({i \in 1..Len(b) : b[i] = NL})

\* the entries (time.time(), line) the reader appends, with their place in
\* the order of arrival
Stamped(texts, now_, n) ==
    [i \in 1..Len(texts) |-> [ts |-> now_, text |-> texts[i], seq |-> n + i]]

\* _reader_loop: if self._ser and self._ser.is_open
ReaderCheck ==
    /\ at["reader"] = "check"
    /\ at' = [at EXCEPT !["reader"] = IF is_connected THEN "read" ELSE "idle"]
    /\ UNCHANGED <<deviceVars, waitVars,
                   _ser, handles, _lock, port, via, raised, snd,
                   wire, port_ok, faults, nsend, rd_erred>>

\* _reader_loop: buf = b"" in the handler of the I/O errors
BufferAfterErrorMutant(b) == b
BufferAfterError(b) == <<>>

\* _reader_loop: self._ser.read(512) and the except clauses
ReaderRead ==
    /\ at["reader"] = "read"
    /\ \E e \in {IoOutcome} :
       \E k \in {Min(Len(rx_pipe), _READ_SIZE)} :
       \E r \in {ReaderLines(rd_buf \o SubSeq(rx_pipe, 1, k))} :
       \E new \in {Stamped(r.texts, clock, Len(arrivals))} :
          /\ raised' = [raised EXCEPT !["reader"] = e]
          /\ rd_erred' = (rd_erred \/ (e # None /\ IsOSError(e)))
          /\ at' = [at EXCEPT !["reader"] =
                       IF e = None THEN "check"
                       ELSE IF ReaderHandler(e) = "reconnect" THEN "port_name"
                       ELSE "nap"]
          /\ rx_pipe' = IF e = None THEN From(rx_pipe, k) ELSE rx_pipe
          /\ rd_buf' = IF e = None THEN r.rest
                       ELSE IF ReaderHandler(e) = "reconnect"
                            THEN BufferAfterError(rd_buf)
                       ELSE rd_buf
          /\ _rx_queue' = IF e = None THEN AppendAll(_rx_queue, new)
                          ELSE _rx_queue
          /\ arrivals' = IF e = None THEN arrivals \o new ELSE arrivals
    /\ UNCHANGED <<deviceVars, _ser, handles, _lock, port, via, snd, wire,
                   port_ok, faults, nsend, clock, saw, answered, said>>

\* _reader_loop: one of its time.sleep calls is over
ReaderWakes ==
    /\ at["reader"] \in {"idle", "nap", "sleep2"}
    /\ at' = [at EXCEPT !["reader"] = "check"]
    /\ UNCHANGED <<deviceVars, waitVars,
                   _ser, handles, _lock, port, via, raised, snd,
                   wire, port_ok, faults, nsend, rd_erred>>

\* every handle that is open loses its device
Invalidated ==
    [i \in 1..Len(handles) |->
        [handles[i] EXCEPT !.stale = @ \/ handles[i].open]]

\* the device reboots: the handles go stale, the port can be opened again
DeviceReboots ==
    /\ port_ok
    /\ faults < MaxFaults
    /\ faults' = faults + 1
    /\ handles' = Invalidated
    /\ UNCHANGED <<deviceVars, waitVars,
                   _ser, _lock, at, port, via, raised, snd, wire,
                   port_ok, nsend, rd_erred>>

\* the device is unplugged
PortLost ==
    /\ port_ok
    /\ faults < MaxFaults
    /\ faults' = faults + 1
    /\ port_ok' = FALSE
    /\ handles' = Invalidated
    /\ UNCHANGED <<deviceVars, waitVars,
                   _ser, _lock, at, port, via, raised, snd, wire,
                   nsend, rd_erred>>

\* the device is plugged in again
PortBack ==
    /\ ~port_ok
    /\ port_ok' = TRUE
    /\ UNCHANGED <<deviceVars, waitVars,
                   _ser, handles, _lock, at, port, via, raised,
                   snd, wire, faults, nsend, rd_erred>>

ConnectSteps(t) ==
    \/ ConnectCheck(t)
    \/ ConnectOpen(t)
    \/ ConnectSettled(t)
    \/ ConnectReset(t)
    \/ ConnectThread(t)

ReconnectSteps(t) ==
    \/ ReconnectPort(t)
    \/ ReconnectClose(t)
    \/ ReconnectForget(t)
    \/ ReconnectCooled(t)

ReaderSteps ==
    \/ ReaderCheck
    \/ ReaderRead
    \/ ReaderWakes
    \/ ReconnectSteps("reader")
    \/ ConnectSteps("reader")

SenderSteps(s) ==
    \/ \E m \in HostMsgs : SendCall(s, m)
    \/ SendEnsure(s)
    \/ SendAcquire(s)
    \/ SendWrite(s)
    \/ SendWritten(s)
    \/ SendDone(s)
    \/ ReconnectSteps(s)
    \/ ConnectSteps(s)

NextHost ==
    \/ SenderSteps("sender")
    \/ ReaderSteps
    \/ DeviceReboots
    \/ PortLost
    \/ PortBack

SpecHost == Init /\ [][NextHost]_vars

-----------------------------------------------------------------------------
(* The reader thread alone with the link: the application has connected    *)
(* and calls nothing more.  The scheduler runs the reader thread again and *)
(* again, and its sleeps end: weak fairness of its steps.                  *)

InitReader ==
    /\ DeviceInit
    /\ _ser = 1
    /\ handles = <<[open |-> TRUE, stale |-> FALSE, port |-> DevicePort]>>
    /\ _lock = None
    /\ at = [t \in Threads |-> IF t = "reader" THEN "check" ELSE "idle"]
    /\ port = [t \in Threads |-> None]
    /\ via = [t \in Threads |-> None]
    /\ raised = [t \in Threads |-> None]
    /\ snd = [s \in Senders |->
                [msg |-> <<>>, writes |-> 0, reconnects |-> 0,
                 first |-> None, base |-> 0]]
    /\ wire = <<>>
    /\ port_ok = TRUE
    /\ faults = 0
    /\ nsend = [s \in Senders |-> 0]
    /\ rd_erred = FALSE
    /\ WaitInit

NextReader ==
    \/ ReaderSteps
    \/ DeviceReboots
    \/ PortLost
    \/ PortBack

SpecReader == InitReader /\ [][NextReader]_vars

FairSpecReader == SpecReader /\ WF_vars(ReaderSteps)

\* self._ser is a handle that is open on the device
Reopened == is_connected /\ ~handles[_ser].stale

\* C17: once the reader has met an I/O error, if the port is openable from
\* some time on, the transport is connected again later, by the reader's
\* own steps, whether or not its first attempt to reopen succeeded.
C17_ReaderReopens == (<>[]port_ok) => [](rd_erred => <>Reopened)

-----------------------------------------------------------------------------
(* Claims about the host transport, checked under SpecHost.                *)

\* C18: the reader thread never ends: whatever a read or a reconnect
\* raises, _reader_loop is still at one of its own positions or inside the
\* _reconnect it called.
C18_ReaderNeverEnds == at["reader"] # "dead"

\* the reader met an I/O error, its reconnect failed, and it is about to
\* loop again
C18_Witness ==
    /\ rd_erred
    /\ at["reader"] = "sleep2"
    /\ raised["reader"] \in {"SerialException", "ConnectionError",
                             "AttributeError"}

\* the writes of the send() in progress that reached the device
Delivered == SubSeq(wire, snd["sender"].base + 1, Len(wire))

\* C19: one send() call writes at most twice and reconnects at most once.
\* It reconnects exactly when its first write failed with an OSError (which
\* SerialException and PermissionError are); after the reconnect it either
\* writes the same bytes once more and returns, or it raises to its caller:
\* a failed reconnect or a failed second write is not tried again.
C19_OneReconnectOneRetry ==
    /\ snd["sender"].writes <= 2
    /\ snd["sender"].reconnects <= 1
    /\ snd["sender"].writes = 2 => snd["sender"].reconnects = 1
    /\ snd["sender"].writes >= 1 =>
          (snd["sender"].reconnects = 1 <=> IsOSError(snd["sender"].first))
    /\ at["sender"] = "returned" =>
          /\ snd["sender"].writes = snd["sender"].reconnects + 1
          /\ Delivered = Halves(snd["sender"].msg)
    /\ at["sender"] = "raised" =>
          /\ raised["sender"] # None
          /\ Delivered = <<>>

\* the first write failed, send reconnected, wrote again and returned
C19_Witness ==
    /\ at["sender"] = "returned"
    /\ snd["sender"].reconnects = 1
    /\ snd["sender"].writes = 2

-----------------------------------------------------------------------------
(* The device reboots under a transport in use: the handles go stale and   *)
(* the port can be opened again at once.  The sender and the reader both   *)
(* run.                                                                    *)

NextStale ==
    \/ SenderSteps("sender")
    \/ ReaderSteps
    \/ DeviceReboots

SpecStale == Init /\ [][NextStale]_vars

\* C20: when the device has rebooted once and the first write of a send()
\* failed on the stale handle, that send() returns normally and its
\* payload has reached the device exactly once, whatever the reader thread
\* does in between.
C20_DeliveredOnce ==
    (/\ faults = 1
     /\ snd["sender"].first = "SerialException"
     /\ at["sender"] \in {"returned", "raised"})
        => /\ at["sender"] = "returned"
           /\ Delivered = Halves(snd["sender"].msg)

-----------------------------------------------------------------------------
(* Two application threads call send() at the same time.  The device has   *)
(* rebooted while the transport was idle, so the handle they find is stale *)
(* and each send() goes through its reconnect and its second write.  Each  *)
(* thread sends its own message.  The reader thread, which writes nothing, *)
(* is not scheduled here.                                                  *)

InitSenders ==
    /\ DeviceInit
    /\ _ser = 1
    /\ handles = <<[open |-> TRUE, stale |-> TRUE, port |-> DevicePort]>>
    /\ _lock = None
    /\ at = [t \in Threads |-> IF t = "reader" THEN "check" ELSE "idle"]
    /\ port = [t \in Threads |-> None]
    /\ via = [t \in Threads |-> None]
    /\ raised = [t \in Threads |-> None]
    /\ snd = [s \in Senders |->
                [msg |-> <<>>, writes |-> 0, reconnects |-> 0,
                 first |-> None, base |-> 0]]
    /\ wire = <<>>
    /\ port_ok = TRUE
    /\ faults = 1
    /\ nsend = [s \in Senders |-> 0]
    /\ rd_erred = FALSE
    /\ WaitInit

MessageOf(s) == IF s = "sender" THEN <<104, 105>> ELSE <<111, 107, 10>>

NextSenders ==
    \E s \in Senders :
        \/ SendCall(s, MessageOf(s))
        \/ SendEnsure(s)
        \/ SendAcquire(s)
        \/ SendWrite(s)
        \/ SendWritten(s)
        \/ SendDone(s)
        \/ ReconnectSteps(s)
        \/ ConnectSteps(s)

SpecSenders == InitSenders /\ [][NextSenders]_vars

\* the byte strings send() writes
Payloads == {Encode(Terminated(m)) : m \in HostMsgs}

\* the parts on the wire from the i-th on are one whole payload, or the
\* first part of one that is being written
WholeAt(i) ==
    \E p \in Payloads :
        /\ wire[i] = Halves(p)[1]
        /\ i < Len(wire) => wire[i + 1] = Halves(p)[2]

\* C21: the bytes of two send() calls are never interleaved: what has
\* reached the device is a run of whole messages, the last one possibly
\* still being written; and every thread that is in a write call holds the
\* mutex.
C21_WritesNotInterleaved ==
    /\ \A i \in 1..Len(wire) : i % 2 = 1 => WholeAt(i)
    /\ \A s \in Senders :
          at[s] \in {"write1", "write2", "writing"} => _lock = s

\* one thread is in the middle of its second write while the other waits
\* for the mutex
C21_Witness ==
    /\ at["sender"] = "writing"
    /\ snd["sender"].writes = 2
    /\ at["sender2"] \in {"lock1", "lock2"}

-----------------------------------------------------------------------------
(* Claims about send() next to the reader's reconnect, checked under       *)
(* SpecStale.                                                              *)

\* a thread holds the mutex and is in its write
Writing == \E s \in Senders :
               _lock = s /\ at[s] \in {"write1", "write2", "writing"}

\* C22: while a send() holds the mutex and is writing, no step closes a
\* handle, or replaces or clears self._ser.
C22_MutexExcludesReconnect ==
    [][Writing =>
          /\ _ser' = _ser
          /\ \A i \in 1..Len(handles) : handles'[i].open = handles[i].open]_vars

\* C30: whatever the reader's reconnect has done to self._ser between the
\* connection check of send() and its write (closed the handle, or set
\* self._ser to None), a first write that fails is followed by a reconnect
\* and a retry: send() does not raise from its first write.
C30_StaleWriteRecovered ==
    (snd["sender"].writes >= 1 /\ snd["sender"].first # None)
        => snd["sender"].reconnects = 1

-----------------------------------------------------------------------------
(* Claims about connect(), checked under SpecHost.                         *)

\* C29: connect() without a port argument, with KEYMASTER_PORT unset and no
\* device to detect, raises ConnectionError; self._ser (None, unless
\* another thread has connected meanwhile) and the handles are as before,
\* and no reader thread is started.
C29_NoPortNoConnection ==
    [][\A t \in Threads :
          (/\ at[t] = "open"
           /\ at'[t] # "open"
           /\ port[t] = None
           /\ _PORT = ""
           /\ ~port_ok)
             => /\ raised'[t] = "ConnectionError"
                /\ at'[t] \in {"raised", "sleep2"}
                /\ _ser' = _ser
                /\ handles' = handles
                /\ is_connected' = is_connected
                /\ (at'["reader"] = "unstarted")
                      <=> (at["reader"] = "unstarted")]_vars

\* the first connect of the application found no device: it raised, there
\* is no handle and no reader thread
C29_Witness ==
    /\ at["sender"] = "raised"
    /\ raised["sender"] = "ConnectionError"
    /\ snd["sender"].writes = 0
    /\ _ser = NoHandle
    /\ handles = <<>>
    /\ at["reader"] = "unstarted"

-----------------------------------------------------------------------------
(* The device talks to the host.  What it writes to its side of the link   *)
(* is in rx_pipe until the reader thread reads it.                         *)

\* the device writes a line nobody asked for: a message of the radio peer,
\* an error report of its bridge
DeviceSays(limit, bytes) ==
    /\ said < limit
    /\ said' = said + 1
    /\ rx_pipe' = rx_pipe \o bytes
    /\ UNCHANGED <<deviceVars, _ser, handles, _lock, at, port, via, raised,
                   snd, wire, port_ok, faults, nsend, rd_erred, _rx_queue,
                   rd_buf, clock, saw, answered, arrivals>>

\* a device that keeps talking as fast as the reader reads: its k-th line
\* is the number k
DeviceFloods ==
    /\ rx_pipe = <<>>
    /\ DeviceSays(MaxFlood, Append(FormatInt(said + 1), NL))

NextQueue ==
    \/ DeviceFloods
    \/ ReaderCheck
    \/ ReaderRead

SpecQueue == InitReader /\ [][NextQueue]_vars

\* C28: the RX queue never holds more than 500 entries; with nobody taking
\* entries out, it holds the most recent ones (all of them up to 500) in
\* the order of their arrival, so after 501 appends the first is gone.
C28_QueueBounded ==
    /\ Len(_rx_queue) <= _RX_MAXLEN
    /\ Len(_rx_queue) = Min(Len(arrivals), _RX_MAXLEN)
    /\ \A i \in 1..Len(_rx_queue) :
          _rx_queue[i] = arrivals[Len(arrivals) - Len(_rx_queue) + i]

\* 501 lines have been appended: the queue holds the 2nd to the 501st
C28_Witness ==
    /\ Len(arrivals) = _RX_MAXLEN + 1
    /\ Len(_rx_queue) = _RX_MAXLEN
    /\ _rx_queue[1].seq = 2
    /\ _rx_queue[1].text = <<50>>
    /\ _rx_queue[_RX_MAXLEN].text = <<53, 48, 49>>

-----------------------------------------------------------------------------
\* _SerialBridge.send_and_wait and its caller _send_cmd.
\*
\* Time is the integer `clock`, one unit being 25 ms.  A caller's own
\* steps take no time: the clock moves only while every caller is idle or
\* in time.sleep(0.05), which lasts exactly its two units.  The reader
\* thread and the device take whatever time they like.  A send() that
\* blocks (a reconnect with its sleeps, a write the port does not accept)
\* is not part of the timed specifications.

\* _TIMEOUT = 5 (seconds)
_TIMEOUT == 200

\* time.sleep(0.05) at the end of each turn of the poll loop
PollSleep == 2

\* the timeout and settle arguments of the calls
Timeouts == {3, 4}
Settles == {1, 2}

\* timeout = timeout or _TIMEOUT: None and 0 alike give the default
EffectiveTimeout(timeout) == IF timeout = 0 THEN _TIMEOUT ELSE timeout

\* while time.time() < deadline
LoopContinuesMutant(now_, deadline) == now_ <= deadline
LoopContinues(now_, deadline) == now_ < deadline

\* the entries of a drain that pass `if ts >= t0`
Qualifying(q, t0) == SelectSeq(q, LAMBDA e : e.ts >= t0)

\* the list send_and_wait returns: the model keeps the whole entry of each
\* collected line, the caller gets the texts
Texts(entries) == [i \in 1..Len(entries) |-> entries[i].text]

\* send_and_wait: timeout = timeout or _TIMEOUT; t0 = time.time(); the
\* deadline is computed from t0
WaitCall(s, message, timeout, settle) ==
    /\ at[s] = "idle"
    /\ nsend[s] < MaxSends
    /\ clock + EffectiveTimeout(timeout) + PollSleep <= MaxClock
    /\ nsend' = [nsend EXCEPT ![s] = @ + 1]
    /\ saw' = [saw EXCEPT ![s] =
                  [NoWait EXCEPT !.active = TRUE, !.msg = message,
                                 !.t0 = clock,
                                 !.deadline = clock + EffectiveTimeout(timeout),
                                 !.settle = settle]]
    /\ at' = [at EXCEPT ![s] = "clear"]
    /\ UNCHANGED <<deviceVars, _ser, handles, _lock, port, via, raised, snd,
                   wire, port_ok, faults, rd_erred, _rx_queue, rx_pipe,
                   rd_buf, clock, answered, said, arrivals>>

\* send_and_wait: self._rx_queue.clear(), then self.send(message) is entered
WaitClear(s) ==
    /\ at[s] = "clear"
    /\ _rx_queue' = <<>>
    /\ snd' = [snd EXCEPT ![s] =
                  [msg |-> Encode(Terminated(saw[s].msg)), writes |-> 0,
                   reconnects |-> 0, first |-> None, base |-> Len(wire)]]
    /\ raised' = [raised EXCEPT ![s] = None]
    /\ at' = [at EXCEPT ![s] = "ensure"]
    /\ UNCHANGED <<deviceVars, _ser, handles, _lock, port, via, wire, port_ok,
                   faults, nsend, rd_erred, rx_pipe, rd_buf, clock, saw,
                   answered, said, arrivals>>

\* send_and_wait: self.send(message) has returned; lines = [], first_at =
\* None, and the poll loop is reached
WaitSent(s) ==
    /\ at[s] = "returned"
    /\ saw[s].active
    /\ at' = [at EXCEPT ![s] = "poll"]
    /\ UNCHANGED <<deviceVars, waitVars, _ser, handles, _lock, port, via,
                   raised, snd, wire, port_ok, faults, nsend, rd_erred>>

\* send_and_wait: one turn of `while time.time() < deadline`: the queue is
\* drained, the entries stamped t0 or later are collected, the first of
\* them sets first_at; once settle has passed since first_at the queue is
\* drained again and the loop is left, otherwise the caller sleeps.  With
\* the deadline reached the loop is left at once.  `upto` is the number of
\* lines that had arrived when the loop was left.
WaitPoll(s) ==
    /\ at[s] = "poll"
    /\ \E w \in {saw[s]} :
       \E go \in {LoopContinues(clock, w.deadline)} :
       \E got \in {IF go THEN Qualifying(_rx_queue, w.t0) ELSE <<>>} :
       \E first \in {IF w.first_at = Never /\ got # <<>> THEN clock
                     ELSE w.first_at} :
       \E settled \in {go /\ first # Never /\ clock - first >= w.settle} :
          /\ _rx_queue' = IF go THEN <<>> ELSE _rx_queue
          /\ saw' = [saw EXCEPT ![s] =
                        [w EXCEPT !.lines = @ \o got,
                                  !.first_at = first,
                                  !.wake = IF go /\ ~settled
                                           THEN clock + PollSleep ELSE @,
                                  !.upto = Len(arrivals)]]
          /\ at' = [at EXCEPT ![s] =
                       IF go /\ ~settled THEN "sleep" ELSE "waited"]
    /\ UNCHANGED <<deviceVars, _ser, handles, _lock, port, via, raised, snd,
                   wire, port_ok, faults, nsend, rd_erred, rx_pipe, rd_buf,
                   clock, answered, said, arrivals>>

\* send_and_wait: time.sleep(0.05) is over
WaitWake(s) ==
    /\ at[s] = "sleep"
    /\ clock >= saw[s].wake
    /\ at' = [at EXCEPT ![s] = "poll"]
    /\ UNCHANGED <<deviceVars, waitVars, _ser, handles, _lock, port, via,
                   raised, snd, wire, port_ok, faults, nsend, rd_erred>>

\* send_and_wait: return lines
WaitReturn(s) ==
    /\ at[s] = "waited"
    /\ at' = [at EXCEPT ![s] = "idle"]
    /\ saw' = [saw EXCEPT ![s] = NoWait]
    /\ UNCHANGED <<deviceVars, _ser, handles, _lock, port, via, raised, snd,
                   wire, port_ok, faults, nsend, rd_erred, _rx_queue, rx_pipe,
                   rd_buf, clock, answered, said, arrivals>>

\* a unit of time passes: not while a caller is at a step that takes no
\* time, and not past the end of a sleep
TimePasses ==
    /\ clock < MaxClock
    /\ \A s \in Senders :
          \/ at[s] = "idle"
          \/ at[s] = "sleep" /\ clock < saw[s].wake
    /\ clock' = clock + 1
    /\ UNCHANGED <<deviceVars, _ser, handles, _lock, at, port, via, raised,
                   snd, wire, port_ok, faults, nsend, rd_erred, _rx_queue,
                   rx_pipe, rd_buf, saw, answered, said, arrivals>>

\* "ACK:", "RSP:", "ERR:" at the start of a line
ACK_LINE == <<65, 67, 75, 58>>
RSP_LINE == <<82, 83, 80, 58>>
ERR_LINE == <<69, 82, 82, 58>>

\* the peer's answer to a request line: ACK: and the request
ReplyTo(request) == ACK_LINE \o request

\* the peer answers the oldest request that is whole on the wire and not
\* yet answered
DeviceReplies ==
    /\ 2 * answered + 2 <= Len(wire)
    /\ answered' = answered + 1
    /\ rx_pipe' = rx_pipe \o
                  ReplyTo(wire[2 * answered + 1] \o wire[2 * answered + 2])
    /\ UNCHANGED <<deviceVars, _ser, handles, _lock, at, port, via, raised,
                   snd, wire, port_ok, faults, nsend, rd_erred, _rx_queue,
                   rd_buf, clock, saw, said, arrivals>>

\* a line the device sends without being asked by the running call: the
\* late answer to a request of an earlier call, "ACK:0\n"
LateLine == <<65, 67, 75, 58, 48, 10>>

DeviceLate == DeviceSays(MaxSaid, LateLine)

\* _parse_response: None for no lines, else the type of the first line
\* that starts with one of the three prefixes, else raw
_parse_response(lines) ==
    LET known == {i \in 1..Len(lines) :
                     \/ StartsWith(lines[i], ACK_LINE)
                     \/ StartsWith(lines[i], RSP_LINE)
                     \/ StartsWith(lines[i], ERR_LINE)}
        Type(line) == IF StartsWith(line, ACK_LINE) THEN "ACK"
                      ELSE IF StartsWith(line, RSP_LINE) THEN "RSP"
                      ELSE "ERR"
    IN  IF lines = <<>> THEN None
        ELSE IF known = {} THEN "raw"
        ELSE Type(lines[CHOOSE i \in known : \A j \in known : i <= j])

\* _send_cmd: what it makes of the lines send_and_wait returned
_send_cmd(lines) ==
    LET Report(type) ==
            CASE type = None -> "No response (timeout)"
              [] type = "ERR" -> "Error from Core"
              [] type = "ACK" -> "ACK"
              [] type = "RSP" -> "RSP"
              [] OTHER -> "raw"
    IN  Report(_parse_response(lines))

\* one caller of send_and_wait on a connected transport, the reader thread,
\* and a device that answers each request and may send one line more
WaitSteps(s) ==
    \/ \E timeout \in Timeouts, settle \in Settles :
          WaitCall(s, MessageOf(s), timeout, settle)
    \/ WaitClear(s)
    \/ SendEnsure(s)
    \/ SendAcquire(s)
    \/ SendWrite(s)
    \/ SendWritten(s)
    \/ WaitSent(s)
    \/ WaitPoll(s)
    \/ WaitWake(s)
    \/ WaitReturn(s)

NextWait ==
    \/ WaitSteps("sender")
    \/ ReaderCheck
    \/ ReaderRead
    \/ DeviceReplies
    \/ DeviceLate
    \/ TimePasses

SpecWait == InitReader /\ [][NextWait]_vars

\* the lines that arrived between the moment the call began to write its
\* message and the moment it left the poll loop
ArrivedSince(s) == SubSeq(arrivals, saw[s].mark + 1, saw[s].upto)

\* C24: a line that was enqueued before send_and_wait sent its message is
\* not among the lines the call returns.
C24_NoStaleLine ==
    \A s \in Senders :
       at[s] = "waited" =>
          \A i \in 1..Len(saw[s].lines) : saw[s].lines[i].seq > saw[s].mark

\* C25: once send_and_wait has collected its first qualifying line, it
\* returns no earlier than `settle` after that moment, and every line
\* enqueued after that first line and before the end of the settle
\* interval is in its result.
C25_SettleWindowKept ==
    \A s \in Senders :
       (at[s] = "waited" /\ saw[s].first_at # Never) =>
          /\ clock >= saw[s].first_at + saw[s].settle
          /\ \A i \in 1..Len(arrivals) :
                (/\ arrivals[i].seq > saw[s].lines[1].seq
                 /\ arrivals[i].ts < saw[s].first_at + saw[s].settle)
                => \E j \in 1..Len(saw[s].lines) :
                      saw[s].lines[j] = arrivals[i]

\* C26: what send_and_wait returns is the lines that were enqueued after
\* it sent its message and before it returned, in the order of their
\* arrival and each once.
C26_ExactlyTheLinesSince ==
    \A s \in Senders :
       at[s] = "waited" => saw[s].lines = ArrivedSince(s)

\* the caller's thread is scheduled and time goes on
FairSpecWait ==
    SpecWait /\ WF_vars(WaitSteps("sender")) /\ WF_vars(TimePasses)

\* no line was enqueued between the call's t0 and its deadline
NoneArrived(s) ==
    \A i \in 1..Len(arrivals) :
       arrivals[i].ts < saw[s].t0 \/ arrivals[i].ts >= saw[s].deadline

\* C27: every call of send_and_wait returns; its poll loop is left, and no
\* sleep of it ends, as late as one poll sleep after the deadline; when no
\* line arrived before the deadline it returns the empty list and not
\* before the deadline; and _send_cmd answers `No response` exactly for
\* the empty list.
C27_WaitTerminates ==
    /\ [](\A s \in Senders :
            /\ at[s] = "sleep" =>
                  saw[s].wake < saw[s].deadline + PollSleep
            /\ at[s] = "waited" =>
                  /\ clock < saw[s].deadline + PollSleep
                  /\ NoneArrived(s) =>
                        saw[s].lines = <<>> /\ clock >= saw[s].deadline
                  /\ saw[s].lines = <<>> <=>
                        _send_cmd(Texts(saw[s].lines))
                           = "No response (timeout)")
    /\ (saw["sender"].active ~> at["sender"] = "waited")

\* a call that slept, saw no line at all and returned the empty list at
\* or after its deadline
C27_Witness ==
    /\ at["sender"] = "waited"
    /\ saw["sender"].wake > 0
    /\ arrivals = <<>>
    /\ saw["sender"].lines = <<>>
    /\ clock >= saw["sender"].deadline

\* two threads call send_and_wait on a connected transport; the reader
\* thread runs and the peer answers each request
NextWaiters ==
    \/ WaitSteps("sender")
    \/ WaitSteps("sender2")
    \/ ReaderCheck
    \/ ReaderRead
    \/ DeviceReplies
    \/ TimePasses

SpecWaiters == InitReader /\ [][NextWaiters]_vars

\* the queue entry's text of the peer's answer to a request
AnswerTo(message) ==
    ReaderLines(ReplyTo(Encode(Terminated(message)))).texts[1]

\* C23: the clear and the drains of one caller of send_and_wait never take
\* out of the queue a line that answers the request of another caller
\* whose call is under way.
C23_CallersSerialized ==
    [][\A o \in Senders :
          (at[o] \in {"clear", "poll"} /\ at'[o] # at[o]) =>
             \A i \in 1..Len(_rx_queue) :
                (\A j \in 1..Len(_rx_queue') : _rx_queue'[j] # _rx_queue[i])
                => \A s \in Senders \ {o} :
                      ~(/\ saw[s].active
                        /\ _rx_queue[i].text = AnswerTo(saw[s].msg))
      ]_vars

-----------------------------------------------------------------------------
\* C31: the connect() that _reconnect calls is given the port that was
\* open before the failure, in whatever thread it runs and whatever the
\* other thread does meanwhile: the port is never left to _PORT or to
\* _find_port.
C31_SamePortReopened ==
    \A t \in Threads :
       (at[t] = "open" /\ via[t] = "_reconnect") =>
          /\ port[t] = DevicePort
          /\ ResolvePort(port[t]) = port[t]

\* the serial.Serial objects that are open
OpenHandles == {i \in 1..Len(handles) : handles[i].open}

\* C32: at most one serial handle is open at any time, and connect() on a
\* connected transport changes nothing and returns.
C32_OneHandleOneReader ==
    /\ [](Cardinality(OpenHandles) <= 1)
    /\ [][\A t \in Threads :
            (at[t] = "connect" /\ is_connected /\ at'[t] # at[t]) =>
               /\ _ser' = _ser
               /\ handles' = handles
               /\ at'[t] = ReturnTo(t)]_vars

-----------------------------------------------------------------------------
\* The reader thread alone on a connected transport, a device that reboots
\* and that sends its lines in pieces: a piece is the newline or one digit,
\* the number of reboots the device has behind it.
DeviceTalks ==
    \E piece \in {<<48 + faults>>, <<NL>>} : DeviceSays(MaxPieces, piece)

NextPartial ==
    \/ ReaderSteps
    \/ DeviceReboots
    \/ DeviceTalks

SpecPartial == InitReader /\ [][NextPartial]_vars

\* C40: when the reader's read raises an I/O error, the bytes of the
\* unfinished line it has buffered are dropped and the RX queue is left as
\* it is; no line ever put in the queue joins bytes the device sent before
\* a reboot with bytes it sent after it.
C40_PartialLineDiscarded ==
    /\ [](\A i \in 1..Len(arrivals) :
            \A j \in 1..Len(arrivals[i].text) :
               arrivals[i].text[j] = arrivals[i].text[1])
    /\ [][(/\ at["reader"] = "read"
           /\ at'["reader"] # "read"
           /\ IoOutcome # None
           /\ IsOSError(IoOutcome))
          => (rd_buf' = <<>> /\ _rx_queue' = _rx_queue)]_vars

\* the read has failed with a line in the queue and a piece of the next
\* line read and buffered: the piece is gone, the line is still there
C40_Witness ==
    /\ at["reader"] = "port_name"
    /\ Len(handles) = 1
    /\ said = 3
    /\ rx_pipe = <<>>
    /\ rd_buf = <<>>
    /\ Len(_rx_queue) = 1
    /\ _rx_queue[1].text = <<48>>

-----------------------------------------------------------------------------
\* the status events that may follow one another in the supervisor's cycle
\* Disconnected, Advertising, Connected, Disconnected; `error` is what the
\* handlers of lines 96-103 report before the cycle ends
MayFollow(a, b) ==
    CASE a = "advertising" -> b \in {"connected", "error", "disconnected"}
      [] a = "connected" -> b \in {"error", "disconnected"}
      [] a = "error" -> b = "disconnected"
      [] a = "disconnected" -> b = "advertising"
      [] OTHER -> FALSE

\* C33: the status events of _advertise_task come cycle by cycle:
\* `advertising` first, then `connected` at most once, and one
\* `disconnected` before the next `advertising`; and _connection is set
\* only after a `connected` that no `disconnected` has followed yet.
C33_StatusCycle ==
    /\ \A i \in 1..(Len(status) - 1) : MayFollow(status[i], status[i + 1])
    /\ (Len(status) \in 1..(MaxStatus - 1)) => status[1] = "advertising"
    /\ _connection # None =>
          \/ status[Len(status)] = "connected"
          \/ /\ Len(status) >= 2
             /\ status[Len(status)] = "error"
             /\ status[Len(status) - 1] = "connected"

-----------------------------------------------------------------------------
\* the host writes a run of bytes with no terminator in it, one byte more
\* than _BUF_OVERFLOW, when no such run is on its way
HostStreams ==
    /\ Positions(stdin, 120) = {}
    /\ Positions(_buf, 120) = {}
    /\ stdin' = stdin \o TagLine(120, _BUF_OVERFLOW + 1)
    /\ UNCHANGED <<hostVars, bleVars, cb_failed, tx, _buf, sent, extracted,
                   hostlines, inVars, activity>>

\* the bridge loop and a host that writes lines and unterminated runs
NextTail ==
    \/ \E line \in HostLines : HostWrite(line)
    \/ HostStreams
    \/ BridgeTick

SpecTail == Init /\ [][NextTail]_vars

\* C34: when a pass of the bridge loop is over (_process_buffer has run
\* and the loop yields), the host line buffer holds no terminator and at
\* most 4096 bytes.
C34_BufferBounded ==
    /\ Positions(_buf, NL) = {}
    /\ Len(_buf) <= _BUF_OVERFLOW

-----------------------------------------------------------------------------
(* Claims about fragmentation and order on the TX characteristic, checked  *)
(* under SpecOut.                                                          *)

\* frags splits the payloads msgs, in order: every fragment is a non-empty
\* piece of at most _CHUNK_SIZE bytes that continues the payload where the
\* fragment before it stopped, no byte is added or left out, and a payload
\* of at most _CHUNK_SIZE bytes is one fragment.  `whole` says that no
\* fragment of the first payload has been taken yet.
RECURSIVE SplitOf(_, _, _)
SplitOf(frags, msgs, whole) ==
    IF msgs = <<>> THEN frags = <<>>
    ELSE IF frags = <<>> THEN FALSE
    ELSE \E f \in {Head(frags)} : \E m \in {Head(msgs)} :
            /\ f # <<>>
            /\ Len(f) <= _CHUNK_SIZE
            /\ Len(f) <= Len(m)
            /\ f = SubSeq(m, 1, Len(f))
            /\ (whole /\ Len(m) <= _CHUNK_SIZE) => f = m
            /\ IF f = m
               THEN SplitOf(Tail(frags), Tail(msgs), TRUE)
               ELSE SplitOf(Tail(frags),
                            <<From(m, Len(f))>> \o Tail(msgs), FALSE)

\* C35: what a pass of the bridge loop gives to send_raw is the payloads
\* it gave to _send_ble, in order, cut into non-empty fragments of at most
\* 200 bytes with nothing added and nothing left out; a payload of at most
\* 200 bytes is one fragment.
C35_FragmentsLossless ==
    [][sent' # sent =>
          SplitOf(From(tx', Len(tx)), From(sent', Len(sent)), TRUE)]_vars

\* a short line went out as one fragment and a line longer than the
\* notification size as a full fragment and a rest
C35_Witness ==
    /\ Len(sent) = 2
    /\ Len(sent[1]) <= _CHUNK_SIZE
    /\ Len(sent[2]) \in (_CHUNK_SIZE + 1)..(2 * _CHUNK_SIZE - 1)
    /\ \E i \in 1..(Len(tx) - 2) :
          /\ tx[i] = sent[1]
          /\ Len(tx[i + 1]) = _CHUNK_SIZE
          /\ tx[i + 1] \o tx[i + 2] = sent[2]

-----------------------------------------------------------------------------
(* Reassembly of sequences whose chunks come in any order and more than    *)
(* once.                                                                   *)

\* the chunks of a sequence of two, with two payloads for its index 1, and
\* the chunks of a sequence of three
AsmMsgs ==
    { ChunkMsg(1, 2, <<65>>),             \* "CHUNK:1/2:A"
      ChunkMsg(1, 2, <<71>>),             \* "CHUNK:1/2:G"
      ChunkMsg(2, 2, <<66, NL>>),         \* "CHUNK:2/2:B\n"
      ChunkMsg(1, 3, <<67>>),             \* "CHUNK:1/3:C"
      ChunkMsg(2, 3, <<72>>),             \* "CHUNK:2/3:H"
      ChunkMsg(3, 3, <<73>>) }            \* "CHUNK:3/3:I"

NextAsm ==
    \/ \E d \in TickSteps : Tick(d)
    \/ LongIdle
    \/ \E m \in AsmMsgs : InboundWrite(m)
    \/ BridgeTick

SpecAsm == Init /\ [][NextAsm]_vars

\* chunk p is a chunk of a message: its index is one of 1..total, and the
\* buffer it continues holds only such indexes
InSequence(p) ==
    /\ p.n \in 1..p.total
    /\ Begins(p) \/ DOMAIN _chunk_buf \subseteq 1..p.total

\* the chunks of its message received so far with chunk p, a repeated
\* index replaced; a chunk that comes to an empty buffer, with another
\* total or after the timeout is the first of its message
WithChunk(buf, p) ==
    [i \in (IF Begins(p) THEN {} ELSE DOMAIN buf) \cup {p.n} |->
        IF i = p.n THEN p.data ELSE buf[i]]

\* C36: a chunk of a message that is not the last missing one is stored,
\* replacing an earlier payload of its index, and nothing is written to
\* the host; the chunk that fills the last missing index makes one line of
\* the payloads in ascending index order and empties the buffer.
C36_AnyOrderReassembly ==
    [][\A m \in AsmMsgs :
        (Handles(m) /\ ValidChunk(m) /\ InSequence(ParseChunk(m))) =>
        LET p == ParseChunk(m)
            got == WithChunk(_chunk_buf, p)
        IN  IF DOMAIN got = 1..p.total
            THEN /\ stdout' = Append(stdout, Terminated(JoinAsc(got)))
                 /\ _chunk_buf' = EmptyBuf
            ELSE /\ stdout' = stdout
                 /\ _chunk_buf' = got
      ]_vars

\* the chunk stored under index i was announced with the current total
\* (no two messages of AsmMsgs have the same payload)
AnnouncedWithTotal(i) ==
    \E m \in AsmMsgs : \E p \in {ParseChunk(m)} :
       /\ p.n = i
       /\ p.total = _chunk_total
       /\ p.data = _chunk_buf[i]

\* C37: between the steps of the device tasks the reassembly state is
\* whole: an empty buffer goes with total 0 and timestamp 0, a non-empty
\* one with a set timestamp and with chunks that were all announced with
\* the current total.
C37_StateConsistent ==
    /\ _chunk_buf = EmptyBuf => (_chunk_total = 0 /\ _chunk_ts = 0)
    /\ _chunk_buf # EmptyBuf =>
          /\ _chunk_ts # 0
          /\ \A i \in DOMAIN _chunk_buf : AnnouncedWithTotal(i)

\* C38: a chunk that continues the sequence in progress leaves the
\* timestamp of the buffer as the first chunk set it, and a pass of the
\* bridge loop over a buffer that is older than the timeout, counted from
\* its first chunk, discards it.
C38_TimerFromFirstChunk ==
    [][/\ \A m \in AsmMsgs :
             (Handles(m) /\ ValidChunk(m) /\ ~Begins(ParseChunk(m))
                /\ _chunk_buf' # EmptyBuf) =>
             _chunk_ts' = _chunk_ts
       /\ LoopOverAged => _chunk_buf' = EmptyBuf
      ]_vars

\* the host lines that have a byte in the payload frag (every host line is
\* made of one byte value that no other line, no chunk header and no echo
\* has)
LinesIn(frag) ==
    {k \in 1..Len(hostlines) : Positions(frag, hostlines[k][1]) # {}}

\* C39: on the TX characteristic the bytes of the host lines come in the
\* order the host wrote the lines, every payload has bytes of one line at
\* most, and between two payloads of one line there are only payloads of
\* that line: none of a later or earlier line, none of another task.
C39_LinesInOrder ==
    \E of \in {[i \in 1..Len(tx) |-> LinesIn(tx[i])]} :
       /\ \A i \in 1..Len(tx) : Cardinality(of[i]) <= 1
       /\ \A i \in 1..Len(tx) : \A j \in (i + 1)..Len(tx) :
             \A a \in of[i] : \A b \in of[j] :
                /\ a <= b
                /\ a = b => \A k \in (i + 1)..(j - 1) : of[k] = {a}

\* two lines were sent whole, a chunked one and after it a fragmented one
C39_Witness ==
    /\ Len(hostlines) = 2
    /\ Len(hostlines[1]) > _CHUNK_PAYLOAD
    /\ Len(hostlines[2]) > _CHUNK_SIZE
    /\ Occurrences(tx, hostlines[1][1]) = Len(hostlines[1])
    /\ Occurrences(tx, hostlines[2][1]) = Len(hostlines[2])
    /\ \E i \in 1..Len(tx) : LinesIn(tx[i]) = {}

====
